---------------------------- MODULE Spec2Model ----------------------------
(***************************************************************************)
(* Verification model of the WhatsApp sales agent:                         *)
(*   - the message batcher and dispatcher of src/chatHandler.js            *)
(*     (debounced grouping, per-conversation processing run, paced         *)
(*     outgoing queue, chunk splitting);                                   *)
(*   - the funnel engine of src/unnamed/part_000 (salesFunnelService)      *)
(*     over the memory store of src/memoryManager.js.                      *)
(* One conversation (one phoneNumber) is modelled: every map of the        *)
(* handler is keyed by phoneNumber and no code path touches another key.   *)
(***************************************************************************)
EXTENDS Integers, Sequences, FiniteSets, TLC

VARIABLES
  \* ---- ChatHandler (src/chatHandler.js) ----
  incomingMessages,   \* messages of the pending group, <<>> when the map has no entry
  timeout,            \* ticks left on the group's debounce timer, -1 when none is armed
  processingChats,    \* index in procs of the processor stored in the map, 0 when none
  procs,              \* every processor object created so far: [pc, pendingMessages, messages]
  messageQueues,      \* the outgoing queue of the conversation (sequence of chunks)
  hasQueue,           \* TRUE when messageQueues has an entry for the conversation
  senders,            \* the _processMessageQueue chains in progress: set of [pc, message]
  lastSent,           \* the chunk last handed to chat.sendMessage, <<0, 0>> before the first
  reordered,          \* TRUE once a chunk was sent after a chunk queued later than it
  typingIndicators,   \* TRUE when the typingIndicators map has an entry for the conversation
  \* ---- history of the batcher ----
  sinceLast,          \* ticks since the last accepted fragment (saturating), -1 before the first
  gapOf,              \* per fragment, in arrival order: "first", "lt", "eq" or "gt" the grouping delay
  frag,               \* per fragment: [flush, run, turn, turnRun, handed] (0 = not yet)
  merged,             \* fragments flushed into a pending list that still held the fragment before them
  flushes,            \* timer firings so far
  turns,              \* turns handed to the pipeline so far
  failed,             \* turns in which the model call, the stage update or the delivery failed
  actions,            \* turns so far in which a special action sent its own message
  batches,            \* batches queued by _queueMessages so far
  pendingAtFailure,   \* fragments that were waiting in a pending list when a turn failed
  \* ---- pure-function harness ----
  content,            \* input of the function under check: the text of _splitMessage, the messages of a chat state
  maxLength,          \* botConfig.behavior.messageSettings.maxCharsPerMessage
  splitInParagraphs,  \* botConfig.behavior.messageSettings.splitInParagraphs
  chunks,             \* result of _splitMessage, <<>> before the call
  called,             \* TRUE once the function under check has been applied
  \* ---- SalesFunnelService over the memory store ----
  store,              \* memory entries of the conversation, least recently updated first
  now,                \* Date.now()
  calls,              \* calls of the funnel service so far
  lastCall,           \* the last operation with its arguments and its result
  \* ---- MemoryManager over its tables (src/memoryManager.js) ----
  prisma,             \* the tables message and memoryEntry of the conversation, and the clock of their writes
  cache               \* this.cache of the conversation: messages and memoryEntries, each <<>> when the map has no entry

chatVars  == <<incomingMessages, timeout, processingChats, procs, messageQueues,
               hasQueue, senders, lastSent, reordered>>
histVars  == <<sinceLast, gapOf, frag, merged, flushes, turns, failed, actions, batches,
               pendingAtFailure>>
splitVars == <<content, maxLength, splitInParagraphs, chunks, called>>
storeVars == <<store, now, calls, lastCall>>
cacheVars == <<prisma, cache>>
typingVars == <<typingIndicators>>
vars      == <<chatVars, histVars, splitVars, storeVars, cacheVars, typingVars>>

(***************************************************************************)
(* Bounds of the model.                                                    *)
(***************************************************************************)
MaxFragments == 3     \* inbound fragments accepted in one behaviour (transport idle)
SendFragments == 2    \* inbound fragments accepted in one behaviour of the whole system
MaxChunks    == 2     \* chunks of one outgoing batch
MaxActions   == 1     \* special-action replies (checkout link, ...) in one behaviour

\* MESSAGE_GROUPING_DELAY, in ticks.
GroupingDelay == 2

Fragments == 1..MaxFragments

Range(s) == {s[i] : i \in 1..Len(s)}

(***************************************************************************)
(* ChatHandler: state after the constructor (chatHandler.js 43-55).        *)
(***************************************************************************)
ChatInit ==
  /\ incomingMessages = <<>>
  /\ timeout = -1
  /\ processingChats = 0
  /\ procs = <<>>
  /\ messageQueues = <<>>
  /\ hasQueue = FALSE
  /\ senders = {}
  /\ lastSent = <<0, 0>>
  /\ reordered = FALSE
  /\ typingIndicators = FALSE

HistInit ==
  /\ sinceLast = -1
  /\ gapOf = <<>>
  /\ frag = [f \in Fragments |->
               [flush |-> 0, run |-> 0, turn |-> 0, turnRun |-> 0, handed |-> 0]]
  /\ merged = {}
  /\ flushes = 0
  /\ turns = 0
  /\ failed = {}
  /\ actions = 0
  /\ batches = 0
  /\ pendingAtFailure = {}

\* Values of the variables a specification does not use.
SplitIdle == content = <<>> /\ maxLength = 0 /\ splitInParagraphs = FALSE
             /\ chunks = <<>> /\ called = FALSE

NoCall == [op |-> "none", arg |-> "none", result |-> "none", failedReads |-> {}]

StoreIdle == store = <<>> /\ now = 0 /\ calls = 0 /\ lastCall = NoCall

\* MemoryManager constructor (memoryManager.js 26-42) over empty tables.
CacheIdle ==
  /\ prisma = [message |-> <<>>, memoryEntry |-> <<>>, clock |-> 0]
  /\ cache = [messages |-> <<>>, memoryEntries |-> <<>>]

(***************************************************************************)
(* The runs of a conversation.                                             *)
(***************************************************************************)
ActiveRuns == {r \in 1..Len(procs) : procs[r].pc # "done"}

\* Fragments waiting in the pending list of some processor.
Waiting == UNION {Range(procs[r].pendingMessages) : r \in 1..Len(procs)}

GapClass == IF sinceLast = -1 THEN "first"
            ELSE IF sinceLast < GroupingDelay THEN "lt"
            ELSE IF sinceLast = GroupingDelay THEN "eq"
            ELSE "gt"

(***************************************************************************)
(* _addToMessageGroup (chatHandler.js 109-139): the fragment joins the     *)
(* pending group, or creates it; either way the debounce timer is          *)
(* (re)armed with the full delay.                                          *)
(***************************************************************************)
AddToMessageGroup ==
  /\ Len(gapOf) < MaxFragments
  /\ incomingMessages' = Append(incomingMessages, Len(gapOf) + 1)
  /\ timeout' = GroupingDelay
  /\ gapOf' = Append(gapOf, GapClass)
  /\ sinceLast' = 0
  /\ UNCHANGED <<processingChats, procs, messageQueues, hasQueue, senders, lastSent,
                 reordered>>
  /\ UNCHANGED <<frag, merged, flushes, turns, failed, actions, batches, pendingAtFailure>>
  /\ UNCHANGED <<splitVars, storeVars, cacheVars, typingVars>>

(***************************************************************************)
(* Passage of one tick.  A timer whose delay has elapsed fires before      *)
(* time moves on.                                                          *)
(***************************************************************************)
Tick ==
  /\ timeout # 0
  /\ sinceLast >= 0
  /\ sinceLast <= GroupingDelay
  /\ timeout' = IF timeout > 0 THEN timeout - 1 ELSE timeout
  /\ sinceLast' = sinceLast + 1
  /\ UNCHANGED <<incomingMessages, processingChats, procs, messageQueues, hasQueue,
                 senders, lastSent, reordered>>
  /\ UNCHANGED <<gapOf, frag, merged, flushes, turns, failed, actions, batches,
                 pendingAtFailure>>
  /\ UNCHANGED <<splitVars, storeVars, cacheVars, typingVars>>

\* Mutant of ReleaseRun: the run ends without deleting the map entry.
MutReleaseRun(r) ==
  /\ procs' = [procs EXCEPT ![r].pc = "done", ![r].messages = <<>>]
  /\ UNCHANGED processingChats

(***************************************************************************)
(* The finally of _processMessageGroup (chatHandler.js 188-191), reached   *)
(* when _processChatMessages of processor r returns: the map entry of the  *)
(* conversation is deleted.                                                *)
(***************************************************************************)
ReleaseRun(r) ==
  /\ procs' = [procs EXCEPT ![r].pc = "done", ![r].messages = <<>>]
  /\ processingChats' = 0

\* Mutant of TakeTurn: the loop takes one pending message per iteration.
MutTakeTurn(r) ==
  /\ procs' = [procs EXCEPT ![r] = [pc |-> "ai",
                                    pendingMessages |-> Tail(procs[r].pendingMessages),
                                    messages |-> <<Head(procs[r].pendingMessages)>>]]
  /\ turns' = turns + 1
  /\ frag' = [frag EXCEPT ![Head(procs[r].pendingMessages)] =
                [@ EXCEPT !.turn = turns + 1, !.turnRun = r, !.handed = @ + 1]]
  /\ UNCHANGED processingChats

(***************************************************************************)
(* The loop of _processChatMessages takes a turn (chatHandler.js 206-224): *)
(* the whole pending list is copied, emptied and handed to the pipeline as *)
(* one combined text.                                                      *)
(***************************************************************************)
TakeTurn(r) ==
  /\ procs' = [procs EXCEPT ![r] = [pc |-> "ai",
                                    pendingMessages |-> <<>>,
                                    messages |-> procs[r].pendingMessages]]
  /\ turns' = turns + 1
  /\ frag' = [f \in Fragments |->
                IF f \in Range(procs[r].pendingMessages)
                THEN [frag[f] EXCEPT !.turn = turns + 1, !.turnRun = r,
                                     !.handed = @ + 1]
                ELSE frag[f]]
  /\ UNCHANGED processingChats

(***************************************************************************)
(* Head of the loop of _processChatMessages (chatHandler.js 206) for       *)
(* processor r, run without suspension after the await before it: the      *)
(* loop goes on while the pending list is not empty, else the function     *)
(* returns.                                                                *)
(***************************************************************************)
LoopHead(r) ==
  IF Len(procs[r].pendingMessages) > 0
  THEN TakeTurn(r)
  ELSE ReleaseRun(r) /\ UNCHANGED <<frag, turns>>

\* Mutant of ProcessMessageGroup: no test of processingChats, every flush
\* creates and stores a processor of its own.
MutProcessMessageGroup ==
  /\ timeout = 0
  /\ timeout' = -1
  /\ incomingMessages' = <<>>
  /\ incomingMessages # <<>>
  /\ flushes' = flushes + 1
  /\ procs' = Append(procs, [pc |-> "getChatState",
                             pendingMessages |-> incomingMessages,
                             messages |-> <<>>])
  /\ processingChats' = Len(procs) + 1
  /\ frag' = [f \in Fragments |->
                IF f \in Range(incomingMessages)
                THEN [frag[f] EXCEPT !.flush = flushes + 1, !.run = Len(procs) + 1]
                ELSE frag[f]]
  /\ UNCHANGED merged
  /\ UNCHANGED <<messageQueues, hasQueue, senders, lastSent, reordered>>
  /\ UNCHANGED <<sinceLast, gapOf, turns, failed, actions, batches, pendingAtFailure>>
  /\ UNCHANGED <<splitVars, storeVars, cacheVars, typingVars>>

(***************************************************************************)
(* _processMessageGroup (chatHandler.js 147-192), called by the debounce   *)
(* timer: the group is removed from the map; it is pushed onto the pending *)
(* list of the processor in processingChats, or a new processor is created *)
(* and stored and _processChatMessages starts (suspends in _getChatState). *)
(***************************************************************************)
ProcessMessageGroup ==
  /\ timeout = 0
  /\ timeout' = -1
  /\ incomingMessages' = <<>>
  /\ IF incomingMessages = <<>>
     THEN UNCHANGED <<processingChats, procs, frag, merged, flushes>>
     ELSE /\ flushes' = flushes + 1
          /\ IF processingChats # 0
             THEN /\ procs' = [procs EXCEPT ![processingChats].pendingMessages =
                                               @ \o incomingMessages]
                  /\ UNCHANGED processingChats
                  /\ frag' = [f \in Fragments |->
                                IF f \in Range(incomingMessages)
                                THEN [frag[f] EXCEPT !.flush = flushes + 1,
                                                     !.run = processingChats]
                                ELSE frag[f]]
                  /\ merged' = merged \cup
                       {f \in Range(incomingMessages) :
                          f - 1 \in Range(procs[processingChats].pendingMessages)}
             ELSE /\ procs' = Append(procs, [pc |-> "getChatState",
                                             pendingMessages |-> incomingMessages,
                                             messages |-> <<>>])
                  /\ processingChats' = Len(procs) + 1
                  /\ frag' = [f \in Fragments |->
                                IF f \in Range(incomingMessages)
                                THEN [frag[f] EXCEPT !.flush = flushes + 1,
                                                     !.run = Len(procs) + 1]
                                ELSE frag[f]]
                  /\ UNCHANGED merged
  /\ UNCHANGED <<messageQueues, hasQueue, senders, lastSent, reordered>>
  /\ UNCHANGED <<sinceLast, gapOf, turns, failed, actions, batches, pendingAtFailure>>
  /\ UNCHANGED <<splitVars, storeVars, cacheVars, typingVars>>

(***************************************************************************)
(* _getChatState returns (chatHandler.js 203, 1100-1142; it catches every  *)
(* error) and the loop is entered.                                         *)
(***************************************************************************)
GetChatStateDone(r) ==
  /\ procs[r].pc = "getChatState"
  /\ LoopHead(r)
  /\ UNCHANGED <<incomingMessages, timeout, messageQueues, hasQueue, senders,
                 lastSent, reordered>>
  /\ UNCHANGED <<sinceLast, gapOf, merged, flushes, failed, actions, batches,
                 pendingAtFailure>>
  /\ UNCHANGED <<splitVars, storeVars, cacheVars, typingVars>>

(***************************************************************************)
(* Outgoing queue.  A chunk is <<batch, index>>; chunks are queued in      *)
(* increasing order of batch, then index.                                  *)
(***************************************************************************)
BatchChunks(b, n) == [i \in 1..n |-> <<b, i>>]

Before(c, d) == c[1] < d[1] \/ (c[1] = d[1] /\ c[2] < d[2])

(***************************************************************************)
(* _queueMessages (chatHandler.js 807-822) with n chunks: the queue is     *)
(* created if absent, the chunks are pushed, and _processMessageQueue is   *)
(* called when the queue then holds exactly the pushed chunks; that call   *)
(* (830-849) shifts the first chunk and suspends before sending it.        *)
(***************************************************************************)
QueueMessages(n) ==
  LET b == batches + 1
      q == (IF hasQueue THEN messageQueues ELSE <<>>) \o BatchChunks(b, n)
  IN  /\ batches' = b
      /\ hasQueue' = TRUE
      /\ IF Len(q) = n
         THEN /\ messageQueues' = Tail(q)
              /\ senders' = senders \cup {[pc |-> "typing", message |-> Head(q)]}
         ELSE /\ messageQueues' = q
              /\ UNCHANGED senders

(***************************************************************************)
(* _processMessageQueue after the typing delay (chatHandler.js 849-863):   *)
(* chat.sendMessage is called with the chunk it holds; the between-chunks  *)
(* delay and the 100 ms timer of line 863 follow.                          *)
(***************************************************************************)
SenderSend(s) ==
  /\ s \in senders
  /\ s.pc = "typing"
  /\ lastSent' = s.message
  /\ reordered' = (reordered \/ Before(s.message, lastSent))
  /\ senders' = (senders \ {s}) \cup {[s EXCEPT !.pc = "waiting"]}
  /\ UNCHANGED <<incomingMessages, timeout, processingChats, procs, messageQueues, hasQueue>>
  /\ UNCHANGED histVars
  /\ UNCHANGED <<splitVars, storeVars, cacheVars, typingVars>>

(***************************************************************************)
(* getChatById or chat.sendMessage throws in _processMessageQueue          *)
(* (chatHandler.js 864-869): the queue is deleted, nothing is rescheduled. *)
(***************************************************************************)
SenderFail(s) ==
  /\ s \in senders
  /\ s.pc = "typing"
  /\ senders' = senders \ {s}
  /\ messageQueues' = <<>>
  /\ hasQueue' = FALSE
  /\ pendingAtFailure' = pendingAtFailure \cup Waiting
  /\ UNCHANGED <<incomingMessages, timeout, processingChats, procs, lastSent, reordered>>
  /\ UNCHANGED <<sinceLast, gapOf, frag, merged, flushes, turns, failed, actions, batches>>
  /\ UNCHANGED <<splitVars, storeVars, cacheVars, typingVars>>

(***************************************************************************)
(* The timer of line 863 fires and _processMessageQueue runs again         *)
(* (chatHandler.js 830-849): an absent or empty queue is deleted and the   *)
(* chain ends, else the next chunk is shifted.                             *)
(***************************************************************************)
SenderNext(s) ==
  /\ s \in senders
  /\ s.pc = "waiting"
  /\ IF ~hasQueue \/ messageQueues = <<>>
     THEN /\ hasQueue' = FALSE
          /\ messageQueues' = <<>>
          /\ senders' = senders \ {s}
     ELSE /\ messageQueues' = Tail(messageQueues)
          /\ senders' = (senders \ {s}) \cup {[pc |-> "typing",
                                               message |-> Head(messageQueues)]}
          /\ UNCHANGED hasQueue
  /\ UNCHANGED <<incomingMessages, timeout, processingChats, procs, lastSent, reordered>>
  /\ UNCHANGED histVars
  /\ UNCHANGED <<splitVars, storeVars, cacheVars, typingVars>>

(***************************************************************************)
(* The pipeline of one turn: _processTextMessage (chatHandler.js 304-349). *)
(***************************************************************************)
Outcomes == {"ok", "action", "modelFail", "stageFail"}

Failed(o) == o \in {"modelFail", "stageFail"}

\* Mutant of AiDone: a failed model call or stage update propagates out of
\* _processChatMessages, so the run ends with its pending list as it is.
MutAiDone(r, o) ==
  /\ procs[r].pc = "ai"
  /\ o = "action" => actions < MaxActions
  /\ IF Failed(o)
     THEN /\ procs' = [procs EXCEPT ![r].pc = "done", ![r].messages = <<>>]
          /\ processingChats' = 0
     ELSE /\ procs' = [procs EXCEPT ![r].pc = IF o = "action" THEN "action" ELSE "reply"]
          /\ UNCHANGED processingChats
  /\ actions' = IF o = "action" THEN actions + 1 ELSE actions
  /\ failed' = IF Failed(o) THEN failed \cup {turns} ELSE failed
  /\ pendingAtFailure' = IF Failed(o) THEN pendingAtFailure \cup Waiting
                         ELSE pendingAtFailure
  /\ UNCHANGED <<incomingMessages, timeout, messageQueues, hasQueue,
                 senders, lastSent, reordered>>
  /\ UNCHANGED <<sinceLast, gapOf, frag, merged, flushes, turns, batches>>
  /\ UNCHANGED <<splitVars, storeVars, cacheVars, typingVars>>

(***************************************************************************)
(* aiHandler.processUserMessage returns and the stage update is attempted  *)
(* (chatHandler.js 312-329).  A failed model call comes back as the        *)
(* fallback response (aiHandler.js 267-278); a failed updateFunnelStage is *)
(* caught at 335-344; in both cases the apology is what is sent next.      *)
(* With outcome "action" a special action sends its own message first.     *)
(***************************************************************************)
AiDone(r, o) ==
  /\ procs[r].pc = "ai"
  /\ o = "action" => actions < MaxActions
  /\ procs' = [procs EXCEPT ![r].pc = IF o = "action" THEN "action" ELSE "reply"]
  /\ actions' = IF o = "action" THEN actions + 1 ELSE actions
  /\ failed' = IF Failed(o) THEN failed \cup {turns} ELSE failed
  /\ pendingAtFailure' = IF Failed(o) THEN pendingAtFailure \cup Waiting
                         ELSE pendingAtFailure
  /\ UNCHANGED <<incomingMessages, timeout, processingChats, messageQueues, hasQueue,
                 senders, lastSent, reordered>>
  /\ UNCHANGED <<sinceLast, gapOf, frag, merged, flushes, turns, batches>>
  /\ UNCHANGED <<splitVars, storeVars, cacheVars, typingVars>>

\* Mutant of SendResponse: a failed delivery empties the pending list of the run.
MutSendResponse(r, n, delivered) ==
  /\ procs[r].pc \in {"action", "reply"}
  /\ IF delivered
     THEN /\ procs' = [procs EXCEPT ![r].pc =
                          IF procs[r].pc = "action" THEN "reply" ELSE "sleep"]
          /\ QueueMessages(n)
          /\ UNCHANGED <<failed, pendingAtFailure>>
     ELSE /\ procs' = [procs EXCEPT ![r].pc =
                          IF procs[r].pc = "action" THEN "reply" ELSE "sleep",
                                    ![r].pendingMessages = <<>>]
          /\ failed' = failed \cup {turns}
          /\ pendingAtFailure' = pendingAtFailure \cup Waiting
          /\ UNCHANGED <<messageQueues, hasQueue, senders, batches>>
  /\ UNCHANGED <<incomingMessages, timeout, processingChats, lastSent, reordered>>
  /\ UNCHANGED <<sinceLast, gapOf, frag, merged, flushes, turns, actions>>
  /\ UNCHANGED <<splitVars, storeVars, cacheVars, typingVars>>

(***************************************************************************)
(* _sendResponse (chatHandler.js 778-799): the text is split in n chunks   *)
(* and queued; when getChatById throws, the error is logged and nothing is *)
(* queued.  After the reply the run sleeps 100 ms (line 240).              *)
(***************************************************************************)
SendResponse(r, n, delivered) ==
  /\ procs[r].pc \in {"action", "reply"}
  /\ procs' = [procs EXCEPT ![r].pc = IF procs[r].pc = "action" THEN "reply" ELSE "sleep"]
  /\ IF delivered
     THEN /\ QueueMessages(n)
          /\ UNCHANGED <<failed, pendingAtFailure>>
     ELSE /\ failed' = failed \cup {turns}
          /\ pendingAtFailure' = pendingAtFailure \cup Waiting
          /\ UNCHANGED <<messageQueues, hasQueue, senders, batches>>
  /\ UNCHANGED <<incomingMessages, timeout, processingChats, lastSent, reordered>>
  /\ UNCHANGED <<sinceLast, gapOf, frag, merged, flushes, turns, actions>>
  /\ UNCHANGED <<splitVars, storeVars, cacheVars, typingVars>>

\* Mutant of SleepDone: the function returns after the sleep without
\* testing the pending list.
MutSleepDone(r) ==
  /\ procs[r].pc = "sleep"
  /\ ReleaseRun(r)
  /\ UNCHANGED <<frag, turns>>
  /\ UNCHANGED <<incomingMessages, timeout, messageQueues, hasQueue, senders,
                 lastSent, reordered>>
  /\ UNCHANGED <<sinceLast, gapOf, merged, flushes, failed, actions, batches,
                 pendingAtFailure>>
  /\ UNCHANGED <<splitVars, storeVars, cacheVars, typingVars>>

(***************************************************************************)
(* The 100 ms sleep of line 240 ends and the loop condition is tested.     *)
(***************************************************************************)
SleepDone(r) ==
  /\ procs[r].pc = "sleep"
  /\ LoopHead(r)
  /\ UNCHANGED <<incomingMessages, timeout, messageQueues, hasQueue, senders,
                 lastSent, reordered>>
  /\ UNCHANGED <<sinceLast, gapOf, merged, flushes, failed, actions, batches,
                 pendingAtFailure>>
  /\ UNCHANGED <<splitVars, storeVars, cacheVars, typingVars>>

\* A step of a run whose replies are split in a number of chunks of sizes.
RunSteps(sizes) ==
  \E r \in 1..Len(procs) :
     \/ GetChatStateDone(r)
     \/ \E o \in Outcomes : AiDone(r, o)
     \/ \E n \in sizes, delivered \in BOOLEAN : SendResponse(r, n, delivered)
     \/ SleepDone(r)

RunStep == RunSteps(1..MaxChunks)

\* A step of a run whose replies fit one chunk.
ShortRunStep == RunSteps({1})

SenderStep ==
  \E s \in senders : SenderSend(s) \/ SenderFail(s) \/ SenderNext(s)

Init == ChatInit /\ HistInit /\ SplitIdle /\ StoreIdle /\ CacheIdle

(***************************************************************************)
(* The whole handler: inbound fragments, debounce timer, processing run    *)
(* and outgoing senders.                                                   *)
(***************************************************************************)
Next ==
  \/ (Len(gapOf) < SendFragments /\ AddToMessageGroup)
  \/ Tick
  \/ ProcessMessageGroup
  \/ RunStep
  \/ SenderStep

Spec == Init /\ [][Next]_vars

(***************************************************************************)
(* The batcher and the run while the transport makes no progress: no       *)
(* sender step changes a variable the batcher or the run reads, and        *)
(* neither reads the number of chunks of a reply.                          *)
(***************************************************************************)
NextBatcher ==
  \/ AddToMessageGroup
  \/ Tick
  \/ ProcessMessageGroup
  \/ ShortRunStep

SpecBatcher == Init /\ [][NextBatcher]_vars

(***************************************************************************)
(* The awaits of a run complete: the model call has a timeout and a capped *)
(* number of retries, the store calls and the 100 ms sleep return.         *)
(***************************************************************************)
LiveFragments == 2    \* inbound fragments accepted in one behaviour of the fair system

NextBatcherLive ==
  \/ (Len(gapOf) < LiveFragments /\ AddToMessageGroup)
  \/ Tick
  \/ ProcessMessageGroup
  \/ ShortRunStep

SpecBatcherLive == Init /\ [][NextBatcherLive]_vars /\ WF_vars(ShortRunStep)

(***************************************************************************)
(* Chunk splitting (chatHandler.js 878-990).  A text is a sequence of      *)
(* one-character strings; indices of the code are 0-based, so the          *)
(* character at index i is text[i + 1].                                    *)
(***************************************************************************)
MaxTextLen == 7       \* length of the longest reply text
MaxLimit   == 4       \* largest maxCharsPerMessage

Alphabet == {"a", ".", " ", "\n"}

Texts == UNION {[1..n -> Alphabet] : n \in 0..MaxTextLen}

Min(S) == CHOOSE x \in S : \A y \in S : x <= y

Max(S) == CHOOSE x \in S : \A y \in S : x >= y

\* White space of String.prototype.trim and of \s.
IsSpace(c) == c \in {" ", "\n"}

\* String.prototype.trim
Trim(s) ==
  LET keep == {i \in 1..Len(s) : ~IsSpace(s[i])}
  IN  IF keep = {} THEN <<>> ELSE SubSeq(s, Min(keep), Max(keep))

\* String.prototype.substring(from, to), 0 <= from <= to <= length
Substring(s, from, to) == SubSeq(s, from + 1, to)

\* String.prototype.lastIndexOf(pattern, fromIndex): the largest index not
\* above fromIndex at which pattern occurs, -1 when there is none.
LastIndexOf(s, pattern, fromIndex) ==
  LET at == {i \in 0..(Len(s) - Len(pattern)) :
               /\ i <= fromIndex
               /\ \A k \in 1..Len(pattern) : s[i + k] = pattern[k]}
  IN  IF at = {} THEN -1 ELSE Max(at)

\* The boundary with a hard cut whenever the boundary found lies in the
\* first half of the window.
MutSentenceBoundary(text, max, start) ==
  LET end  == start + max
      low(b) == 2 * b < 2 * start + max
      b1 == LastIndexOf(text, <<".", " ">>, end)
      b2 == IF low(b1) THEN LastIndexOf(text, <<"?", " ">>, end) ELSE b1
      b3 == IF low(b2) THEN LastIndexOf(text, <<"!", " ">>, end) ELSE b2
      b4 == IF low(b3) THEN LastIndexOf(text, <<"\n">>, end) ELSE b3
      b5 == IF low(b4) THEN LastIndexOf(text, <<" ">>, end) ELSE b4
  IN  IF low(b5) THEN start + max - 1 ELSE b5

\* The boundary chosen for the window that starts at start
\* (chatHandler.js 956-980); b < start + maxLength / 2 is 2b < 2start + maxLength.
SentenceBoundary(text, max, start) ==
  LET end  == start + max
      low(b) == 2 * b < 2 * start + max
      b1 == LastIndexOf(text, <<".", " ">>, end)
      b2 == IF low(b1) THEN LastIndexOf(text, <<"?", " ">>, end) ELSE b1
      b3 == IF low(b2) THEN LastIndexOf(text, <<"!", " ">>, end) ELSE b2
      b4 == IF low(b3) THEN LastIndexOf(text, <<"\n">>, end) ELSE b3
      b5 == IF low(b4) THEN LastIndexOf(text, <<" ">>, end) ELSE b4
  IN  IF b5 < start THEN start + max - 1 ELSE b5

\* Mutant of Chunk: the character at the boundary is left out of the chunk.
MutChunk(text, start, sentenceBoundary) ==
  Trim(Substring(text, start, sentenceBoundary))

\* The chunk pushed at chatHandler.js 983.
Chunk(text, start, sentenceBoundary) ==
  Trim(Substring(text, start, sentenceBoundary + 1))

RECURSIVE ChunksFrom(_, _, _)
\* The loop of _splitTextChunks from position start (chatHandler.js 946-987).
ChunksFrom(text, max, start) ==
  IF start >= Len(text) THEN <<>>
  ELSE IF start + max >= Len(text)
       THEN <<Trim(Substring(text, start, Len(text)))>>
       ELSE LET sentenceBoundary == SentenceBoundary(text, max, start)
            IN  <<Chunk(text, start, sentenceBoundary)>>
                  \o ChunksFrom(text, max, sentenceBoundary + 1)

RECURSIVE CutsFrom(_, _, _)
\* The iterations of the loop of _splitTextChunks from position start on
\* that are not the last one: where the window starts and the boundary
\* chosen in it (chatHandler.js 946-987).
CutsFrom(text, max, start) ==
  IF start >= Len(text) \/ start + max >= Len(text) THEN <<>>
  ELSE LET sentenceBoundary == SentenceBoundary(text, max, start)
       IN  <<[start |-> start, sentenceBoundary |-> sentenceBoundary]>>
             \o CutsFrom(text, max, sentenceBoundary + 1)

\* _splitTextChunks (chatHandler.js 941-990)
SplitTextChunks(text, max) == ChunksFrom(text, max, 0)

RECURSIVE ParagraphsFrom(_, _)
\* content.split(/\n\s*\n/) from position p (1-based): a separator starts
\* at the first line break that is followed, after white space only, by
\* another line break, and extends to the last such line break.
ParagraphsFrom(text, p) ==
  LET n == Len(text)
      ends(i) == {j \in (i + 1)..n :
                    /\ text[j] = "\n"
                    /\ \A k \in (i + 1)..j : IsSpace(text[k])}
      starts == {i \in p..n : text[i] = "\n" /\ ends(i) # {}}
  IN  IF starts = {} THEN <<SubSeq(text, p, n)>>
      ELSE <<SubSeq(text, p, Min(starts) - 1)>>
             \o ParagraphsFrom(text, Max(ends(Min(starts))) + 1)

RECURSIVE ParagraphLoop(_, _, _, _, _)
\* The loop over the paragraphs from the i-th on and the final push
\* (chatHandler.js 895-925).
ParagraphLoop(paragraphs, i, messages, currentMessage, max) ==
  IF i > Len(paragraphs)
  THEN IF currentMessage # <<>> THEN Append(messages, Trim(currentMessage))
       ELSE messages
  ELSE LET paragraph == paragraphs[i]
           flushed == IF currentMessage # <<>>
                      THEN Append(messages, Trim(currentMessage)) ELSE messages
       IN  IF Len(currentMessage) + Len(paragraph) + 2 > max
           THEN IF Len(paragraph) > max
                THEN ParagraphLoop(paragraphs, i + 1,
                                   flushed \o SplitTextChunks(paragraph, max), <<>>, max)
                ELSE ParagraphLoop(paragraphs, i + 1, flushed, paragraph, max)
           ELSE ParagraphLoop(paragraphs, i + 1, messages,
                              IF currentMessage # <<>>
                              THEN currentMessage \o <<"\n", "\n">> \o paragraph
                              ELSE paragraph,
                              max)

\* _splitMessage (chatHandler.js 878-932)
SplitMessage(text, max, shouldSplitParagraphs) ==
  IF Len(text) <= max THEN <<text>>
  ELSE IF shouldSplitParagraphs
       THEN ParagraphLoop(ParagraphsFrom(text, 1), 1, <<>>, <<>>, max)
       ELSE SplitTextChunks(text, max)

\* A reply text, a maximum length and a splitting mode.
InitSplit ==
  /\ ChatInit /\ HistInit /\ StoreIdle /\ CacheIdle
  /\ content \in Texts
  /\ maxLength \in 1..MaxLimit
  /\ splitInParagraphs \in BOOLEAN
  /\ chunks = <<>>
  /\ called = FALSE

\* _sendResponse splits the reply (chatHandler.js 789).
SplitCall ==
  /\ ~called
  /\ called' = TRUE
  /\ chunks' = SplitMessage(content, maxLength, splitInParagraphs)
  /\ UNCHANGED <<content, maxLength, splitInParagraphs>>
  /\ UNCHANGED <<chatVars, histVars, storeVars, cacheVars, typingVars>>

SpecSplit == InitSplit /\ [][SplitCall]_vars

(***************************************************************************)
(* Memory store (src/memoryManager.js).  A JavaScript value is a record:   *)
(* the string s is [string |-> s], an object is the record of its fields,  *)
(* null is the record null.  An entry is [key, type, value] with value the *)
(* text of the column; a key is a tuple, <<name>> or <<prefix, Date.now()>>*)
(* for the keys built with a time stamp.  The order of store is the order  *)
(* of updatedAt.  Reads are the reads of the table; the cache in front of   *)
(* it is modelled separately, over the variables prisma and cache.         *)
(***************************************************************************)
MaxNow   == 1         \* last value of the clock
MaxCalls == 2         \* calls of updateFunnelStage in one behaviour

null == [null |-> TRUE]

Str(s) == [string |-> s]

\* typeof value === "object"
IsObject(value) == "string" \notin DOMAIN value

\* saveMemoryEntry, memoryManager.js 274-275: JSON.stringify of an object
\* or null, String of anything else.
Serialize(value) == IF IsObject(value) THEN [json |-> value] ELSE value

\* _tryParseJson (memoryManager.js 926-936): the parsed value when the text
\* is JSON, else the text.
TryParseJson(text) ==
  IF "json" \in DOMAIN text THEN text.json
  ELSE IF text = Str("null") THEN null
  ELSE text

\* `if (x)` for the values of the model.
Truthy(value) == value # null /\ value # Str("")

\* saveMemoryEntry (memoryManager.js 264-314): the entry with this key and
\* type is updated, or created, and is the most recently updated one.
SaveMemoryEntry(s, key, value, type) ==
  Append(SelectSeq(s, LAMBDA e : ~(e.key = key /\ e.type = type)),
         [key |-> key, type |-> type, value |-> Serialize(value)])

\* getLatestMemoryEntry (memoryManager.js 373-423): the most recently
\* updated entry of the TYPE, deserialized; none when there is no entry of
\* the type or the read fails.
GetLatestMemoryEntry(s, type, readFails) ==
  LET matching == SelectSeq(s, LAMBDA e : e.type = type)
  IN  IF readFails \/ matching = <<>> THEN [found |-> FALSE, value |-> null]
      ELSE [found |-> TRUE, value |-> TryParseJson(matching[Len(matching)].value)]

\* getMemoryEntry (memoryManager.js 323-365): the entry with the key and type.
GetMemoryEntry(s, key, type) ==
  LET matching == SelectSeq(s, LAMBDA e : e.key = key /\ e.type = type)
  IN  IF matching = <<>> THEN [found |-> FALSE, value |-> null]
      ELSE [found |-> TRUE, value |-> TryParseJson(matching[1].value)]

(***************************************************************************)
(* Funnel engine (src/unnamed/part_000).                                   *)
(***************************************************************************)
FUNNEL_STAGES ==
  {"greeting", "qualification", "need_discovery", "pain_point_exploration",
   "solution_presentation", "product_demonstration", "value_proposition",
   "proof_and_credibility", "objection_handling", "price_discussion", "closing",
   "checkout", "post_purchase_followup", "upsell", "downsell", "cross_sell",
   "reactivation", "feedback"}

\* An opportunity is the record of its targetPlanId; its texts are constants.
DOWNSELL_ALTERNATIVES ==
  [p \in {"pro_plan", "enterprise_plan", "addon_training"} |->
     [targetPlanId |-> CASE p = "pro_plan" -> "basic_plus_plan"
                         [] p = "enterprise_plan" -> "pro_plus_plan"
                         [] p = "addon_training" -> "addon_quickstart"]]

\* this.options of the exported service (part_000 276-290)
defaultStage == "greeting"

enableUpsellDownsell == TRUE

\* getDownsellForRejectedUpsell (part_000 705-712)
GetDownsellForRejectedUpsell(upsellPlanId) ==
  IF ~enableUpsellDownsell THEN null
  ELSE IF upsellPlanId \notin DOMAIN DOWNSELL_ALTERNATIVES THEN null
  ELSE DOWNSELL_ALTERNATIVES[upsellPlanId]

\* value.targetPlanId, "undefined" when the value has no such property
TargetPlanId(value) ==
  IF "targetPlanId" \in DOMAIN value THEN value.targetPlanId ELSE "undefined"

\* Mutant of ValidStage: every stage id is accepted.
MutValidStage(newStage) == newStage = newStage

\* Object.values(FUNNEL_STAGES).includes(newStage) (part_000 511)
ValidStage(newStage) == newStage \in FUNNEL_STAGES

RECURSIVE SaveAll(_, _, _)
\* The first n saveMemoryEntry calls of the sequence writes, in order.
SaveAll(s, writes, n) ==
  IF n = 0 THEN s
  ELSE LET w == writes[n]
       IN  SaveMemoryEntry(SaveAll(s, writes, n - 1), w.key, w.value, w.type)

\* Stage ids a caller passes: stages of the enum and ids that are not.
StageInputs == {"greeting", "closing", "upsell", "downsell", "UPSELL", "unknown_stage"}

(***************************************************************************)
(* updateFunnelStage (part_000 506-595).  failedReads are the reads of     *)
(* getLatestMemoryEntry that fail, by type; failAt is the saveMemoryEntry  *)
(* call that throws (0: none does): the writes before it stay.             *)
(***************************************************************************)
\* The saveMemoryEntry calls of updateFunnelStage(newStage) on store s, in
\* order (part_000 515-586), for a stage id of the enum.
UpdateWrites(s, newStage, failedReads) ==
  LET currentStageMem ==
        GetLatestMemoryEntry(s, "funnel_stage", "funnel_stage" \in failedReads)
      currentStage ==
        IF currentStageMem.found /\ Truthy(currentStageMem.value)
        THEN currentStageMem.value ELSE Str(defaultStage)
      leavesUpsell == currentStage = Str("upsell") /\ newStage # "upsell"
      activeUpsellMem ==
        GetLatestMemoryEntry(s, "active_upsell", "active_upsell" \in failedReads)
      rejects == leavesUpsell /\ activeUpsellMem.found /\ Truthy(activeUpsellMem.value)
      downsellOpportunity ==
        IF rejects THEN GetDownsellForRejectedUpsell(TargetPlanId(activeUpsellMem.value))
        ELSE null
      applied == IF downsellOpportunity # null THEN "downsell" ELSE newStage
  IN  (IF rejects
       THEN <<[key |-> <<"rejected_upsell">>, type |-> "sales_opportunity",
               value |-> [target_plan_id |-> TargetPlanId(activeUpsellMem.value),
                          rejection_time |-> now]]>>
       ELSE <<>>)
      \o (IF downsellOpportunity # null
          THEN <<[key |-> <<"active_downsell">>, type |-> "sales_opportunity",
                  value |-> downsellOpportunity]>>
          ELSE <<>>)
      \o <<[key |-> <<"current_stage">>, type |-> "funnel_stage",
            value |-> Str(applied)],
           [key |-> <<"stage_transition", now>>, type |-> "funnel_analytics",
            value |-> [from |-> currentStage, to |-> Str(applied),
                       timestamp |-> now]]>>

\* TRUE when updateFunnelStage(newStage) on store s reads the active upsell:
\* the stage it finds is upsell and newStage is another one (part_000 526-533).
LeavesUpsell(s, newStage, failedReads) ==
  LET currentStageMem ==
        GetLatestMemoryEntry(s, "funnel_stage", "funnel_stage" \in failedReads)
  IN  /\ currentStageMem.found
      /\ currentStageMem.value = Str("upsell")
      /\ newStage # "upsell"

UpdateFunnelStage(newStage, failedReads, failAt) ==
  LET writes == UpdateWrites(store, newStage, failedReads)
  IN  /\ calls < MaxCalls
      /\ calls' = calls + 1
      /\ IF ~ValidStage(newStage)
         THEN /\ failedReads = {} /\ failAt = 0
              /\ store' = store
              /\ lastCall' = [op |-> "updateFunnelStage", arg |-> newStage,
                              result |-> "Invalid funnel stage", failedReads |-> {}]
         ELSE /\ "active_upsell" \in failedReads =>
                   LeavesUpsell(store, newStage, failedReads)
              /\ failAt <= Len(writes)
              /\ store' = SaveAll(store, writes,
                                  IF failAt = 0 THEN Len(writes) ELSE failAt - 1)
              /\ lastCall' = [op |-> "updateFunnelStage", arg |-> newStage,
                              result |-> IF failAt = 0 THEN "ok"
                                         ELSE "Failed to save memory entry",
                              failedReads |-> failedReads]
      /\ UNCHANGED now
      /\ UNCHANGED <<chatVars, histVars, splitVars, cacheVars, typingVars>>

\* Memory entries an import brings: an active upsell as determineCurrentStage
\* stores it (part_000 349-354), and entries of the type updateFunnelStage
\* reads (part_000 530-533).
ImportEntries ==
  {[key |-> <<"active_upsell">>, type |-> "sales_opportunity",
    value |-> [targetPlanId |-> "pro_plan"]],
   [key |-> <<"active_upsell">>, type |-> "active_upsell",
    value |-> [targetPlanId |-> "pro_plan"]],
   [key |-> <<"active_upsell">>, type |-> "active_upsell",
    value |-> [targetPlanId |-> "starter_plan"]]}

(***************************************************************************)
(* importConversationData (memoryManager.js 707-800) with memory entries   *)
(* whose keys and types are not in the store and no message: the entries   *)
(* are created, in order.                                                  *)
(***************************************************************************)
ImportConversationData(entries) ==
  /\ \A n \in 1..Len(entries), i \in 1..Len(store) :
        ~(store[i].key = entries[n].key /\ store[i].type = entries[n].type)
  /\ store' = store \o [n \in 1..Len(entries) |->
                          [key |-> entries[n].key, type |-> entries[n].type,
                           value |-> Serialize(entries[n].value)]]
  /\ lastCall' = [op |-> "importConversationData", arg |-> entries[1].type,
                  result |-> "ok", failedReads |-> {}]
  /\ UNCHANGED <<now, calls>>
  /\ UNCHANGED <<chatVars, histVars, splitVars, cacheVars, typingVars>>

\* Date.now() moves on.
ClockTick ==
  /\ now < MaxNow
  /\ now' = now + 1
  /\ UNCHANGED <<store, calls, lastCall>>
  /\ UNCHANGED <<chatVars, histVars, splitVars, cacheVars, typingVars>>

NextFunnel ==
  \/ \E newStage \in StageInputs, failedReads \in SUBSET {"funnel_stage", "active_upsell"},
        failAt \in 0..4 : UpdateFunnelStage(newStage, failedReads, failAt)
  \/ \E entry \in ImportEntries : ImportConversationData(<<entry>>)
  \/ ClockTick

SpecFunnel == Init /\ [][NextFunnel]_vars

(***************************************************************************)
(* The clock of the funnel engine.  Date.now() and the time stamps of      *)
(* toISOString are instants counted in half hours; two calls made at the   *)
(* same value of now see the same Date.now().                              *)
(***************************************************************************)
Hour == 2

Day == 24 * Hour

Abs(x) == IF x < 0 THEN 0 - x ELSE x

\* Math.ceil(a / b) for a >= 0 and b > 0
Ceil(a, b) == (a + b - 1) \div b

\* calculateDaysBetween (part_000 720-723)
CalculateDaysBetween(date1, date2) == Ceil(Abs(date2 - date1), Day)

\* calculateHoursBetween (part_000 731-734)
CalculateHoursBetween(date1, date2) == Ceil(Abs(date2 - date1), Hour)

\* Ages of a purchase, in days, at which a turn is processed.
PurchaseAges == {7, 20}

\* Days go by: the clock moves to the day of one of the ages.
DaysPass(d) ==
  /\ now < d * Day
  /\ now' = d * Day
  /\ UNCHANGED <<store, calls, lastCall>>
  /\ UNCHANGED <<chatVars, histVars, splitVars, cacheVars, typingVars>>

(***************************************************************************)
(* Upsell opportunities (part_000 189-228): per purchased plan, in the     *)
(* configured order; an opportunity is the record of its targetPlanId and  *)
(* timing (the timing names are written without their accent).             *)
(***************************************************************************)
UPSELL_OPPORTUNITIES ==
  [p \in {"basic_plan", "pro_plan"} |->
     IF p = "basic_plan"
     THEN <<[targetPlanId |-> "pro_plan", timing |-> "apos_7_dias"]>>
     ELSE <<[targetPlanId |-> "enterprise_plan", timing |-> "apos_30_dias"],
            [targetPlanId |-> "addon_training", timing |-> "apos_3_dias"]>>]

\* this.options.upsellTiming (part_000 281-285)
upsellTiming == [default |-> 7, premium_threshold |-> 30, quick_wins |-> 3]

\* The switch of checkUpsellOpportunity (part_000 671-686); every
\* configured timing is one of the three named ones.
TimingDays(timing) ==
  CASE timing = "apos_3_dias" -> upsellTiming.quick_wins
    [] timing = "apos_7_dias" -> upsellTiming.default
    [] timing = "apos_30_dias" -> upsellTiming.premium_threshold

\* The lookup with an exclusive lower end of the window.
MutCheckUpsellOpportunity(productId, daysSincePurchase) ==
  IF ~enableUpsellDownsell THEN null
  ELSE IF productId \notin DOMAIN UPSELL_OPPORTUNITIES THEN null
  ELSE LET opportunities == UPSELL_OPPORTUNITIES[productId]
           matching == {i \in 1..Len(opportunities) :
                          /\ daysSincePurchase > TimingDays(opportunities[i].timing) - 1
                          /\ daysSincePurchase <= TimingDays(opportunities[i].timing) + 3}
       IN  IF matching = {} THEN null ELSE opportunities[Min(matching)]

\* checkUpsellOpportunity (part_000 661-698)
CheckUpsellOpportunity(productId, daysSincePurchase) ==
  IF ~enableUpsellDownsell THEN null
  ELSE IF productId \notin DOMAIN UPSELL_OPPORTUNITIES THEN null
  ELSE LET opportunities == UPSELL_OPPORTUNITIES[productId]
           matching == {i \in 1..Len(opportunities) :
                          /\ daysSincePurchase >= TimingDays(opportunities[i].timing) - 1
                          /\ daysSincePurchase <= TimingDays(opportunities[i].timing) + 3}
       IN  IF matching = {} THEN null ELSE opportunities[Min(matching)]

\* A value used as a property name or returned as a stage id: the string,
\* "[object Object]" for an object.
StringOf(value) == IF "string" \in DOMAIN value THEN value.string ELSE "[object Object]"

\* chatState as determineCurrentStage reads it: the number of messages and
\* the keyword families found in the user messages among the last five.
ChatStates ==
  {[messageCount |-> 0, signals |-> {}],
   [messageCount |-> 3, signals |-> {}],
   [messageCount |-> 12, signals |-> {"closing", "pricing"}]}

\* The derivation with the pricing keywords looked at before the closing ones.
MutStageByMessages(chatState) ==
  LET messageCount == chatState.messageCount
      signals == chatState.signals
  IN  IF messageCount = 0 THEN "greeting"
      ELSE IF messageCount < 5 THEN "qualification"
      ELSE IF messageCount < 10 THEN "need_discovery"
      ELSE IF "pricing" \in signals THEN "price_discussion"
      ELSE IF "closing" \in signals THEN "closing"
      ELSE IF "objection" \in signals THEN "objection_handling"
      ELSE IF "demo" \in signals THEN "product_demonstration"
      ELSE IF messageCount < 15 THEN "pain_point_exploration"
      ELSE IF messageCount < 20 THEN "solution_presentation"
      ELSE "value_proposition"

\* The derivation by message count and keywords (part_000 395-479)
StageByMessages(chatState) ==
  LET messageCount == chatState.messageCount
      signals == chatState.signals
  IN  IF messageCount = 0 THEN "greeting"
      ELSE IF messageCount < 5 THEN "qualification"
      ELSE IF messageCount < 10 THEN "need_discovery"
      ELSE IF "closing" \in signals THEN "closing"
      ELSE IF "pricing" \in signals THEN "price_discussion"
      ELSE IF "objection" \in signals THEN "objection_handling"
      ELSE IF "demo" \in signals THEN "product_demonstration"
      ELSE IF messageCount < 15 THEN "pain_point_exploration"
      ELSE IF messageCount < 20 THEN "solution_presentation"
      ELSE "value_proposition"

\* Mutant of HasValue: the test of the value is negated.
MutHasValue(mem) == mem.found /\ ~Truthy(mem.value)

\* `mem && mem.value` (part_000 308, 324-329, 363)
HasValue(mem) == mem.found /\ Truthy(mem.value)

\* The types that have an entry in store s.
TypesOf(s) == {s[i].type : i \in 1..Len(s)}

(***************************************************************************)
(* determineCurrentStage (part_000 298-498).  failedReads are the reads    *)
(* that fail, by type: getLatestMemoryEntry then answers null, which is    *)
(* its answer too when the store has no entry of the type, so that the     *)
(* failing reads are reads of types that have an entry.  failAt = 1 when   *)
(* the saveMemoryEntry of the call throws.  DetermineOutcome is what the   *)
(* call finds on store s: its writes, the stage it returns when they       *)
(* succeed, and the types it reads.                                        *)
(***************************************************************************)
DetermineOutcome(s, chatState, failedReads) ==
  LET Read(type) == GetLatestMemoryEntry(s, type, type \in failedReads)
      stageMem == Read("funnel_stage")
      purchasedProductMem == Read("purchased_product")
      lastInteractionMem == Read("last_interaction")
      hasPurchase == /\ enableUpsellDownsell
                     /\ ~HasValue(stageMem)
                     /\ HasValue(purchasedProductMem)
                     /\ HasValue(lastInteractionMem)
      \* new Date(value.purchase_date || value) is a date when the value
      \* has a purchase_date; the comparisons with NaN are false otherwise
      dated == hasPurchase /\ "purchase_date" \in DOMAIN lastInteractionMem.value
      upsellOpportunity ==
        IF dated
        THEN CheckUpsellOpportunity(
               StringOf(purchasedProductMem.value),
               CalculateDaysBetween(lastInteractionMem.value.purchase_date, now))
        ELSE null
      rejectedUpsellMem == Read("rejected_upsell")
      readsRejection == hasPurchase /\ upsellOpportunity = null
      recent == /\ readsRejection
                /\ HasValue(rejectedUpsellMem)
                /\ "rejection_time" \in DOMAIN rejectedUpsellMem.value
                /\ CalculateHoursBetween(rejectedUpsellMem.value.rejection_time, now) < 24
      downsellOpportunity ==
        IF recent /\ "target_plan_id" \in DOMAIN rejectedUpsellMem.value
        THEN GetDownsellForRejectedUpsell(rejectedUpsellMem.value.target_plan_id)
        ELSE null
      stage == StageByMessages(chatState)
      writes ==
        IF HasValue(stageMem) THEN <<>>
        ELSE IF upsellOpportunity # null
        THEN <<[key |-> <<"active_upsell">>, type |-> "sales_opportunity",
                value |-> upsellOpportunity]>>
        ELSE IF downsellOpportunity # null
        THEN <<[key |-> <<"active_downsell">>, type |-> "sales_opportunity",
                value |-> downsellOpportunity]>>
        ELSE <<[key |-> <<"current_stage">>, type |-> "funnel_stage",
                value |-> Str(stage)]>>
      returned ==
        IF HasValue(stageMem) THEN StringOf(stageMem.value)
        ELSE IF upsellOpportunity # null THEN "upsell"
        ELSE IF downsellOpportunity # null THEN "downsell"
        ELSE stage
      reads == {"funnel_stage"}
               \cup (IF enableUpsellDownsell /\ ~HasValue(stageMem)
                     THEN {"purchased_product", "last_interaction"} ELSE {})
               \cup (IF readsRejection THEN {"rejected_upsell"} ELSE {})
  IN  [writes |-> writes, returned |-> returned, reads |-> reads]

DetermineCurrentStage(chatState, failedReads, failAt) ==
  LET outcome == DetermineOutcome(store, chatState, failedReads)
      writes == outcome.writes
  IN  /\ calls < MaxCalls
      /\ calls' = calls + 1
      /\ failedReads \subseteq outcome.reads \cap TypesOf(store)
      /\ failAt <= Len(writes)
      /\ store' = IF failAt = 0 THEN SaveAll(store, writes, Len(writes)) ELSE store
      /\ lastCall' = [op |-> "determineCurrentStage", arg |-> chatState,
                      result |-> IF failAt = 0 THEN outcome.returned ELSE defaultStage,
                      failedReads |-> failedReads, writeFailed |-> failAt # 0]
      /\ UNCHANGED now
      /\ UNCHANGED <<chatVars, histVars, splitVars, cacheVars, typingVars>>

\* The outcome of a list of saveMemoryEntry calls on store s of which call
\* number failAt throws (0, or a number above the length of the list: none
\* does): the store, ok when none threw, and the number of the throwing
\* call counted from the end of the list.
Apply(s, writes, failAt) ==
  LET ok == failAt = 0 \/ failAt > Len(writes)
  IN  [store |-> SaveAll(s, writes, IF ok THEN Len(writes) ELSE failAt - 1),
       ok |-> ok,
       rest |-> IF ok /\ failAt # 0 THEN failAt - Len(writes) ELSE 0]

\* Mutant of PurchaseWrites: the last-interaction marker is not written.
MutPurchaseWrites(productId, value) ==
  <<[key |-> <<"purchased_product">>, type |-> "purchase_history",
     value |-> Str(productId)],
    [key |-> <<"purchase", now>>, type |-> "purchase_history",
     value |-> [product_id |-> productId, value |-> value, purchase_date |-> now]]>>

\* The three saveMemoryEntry calls of recordPurchase (part_000 610-640)
PurchaseWrites(productId, value) ==
  <<[key |-> <<"purchased_product">>, type |-> "purchase_history",
     value |-> Str(productId)],
    [key |-> <<"purchase", now>>, type |-> "purchase_history",
     value |-> [product_id |-> productId, value |-> value, purchase_date |-> now]],
    [key |-> <<"last_interaction">>, type |-> "customer_journey",
     value |-> [type |-> "purchase", purchase_date |-> now,
                product_id |-> productId]]>>

\* recordPurchase on store s (part_000 604-653): its three writes, then
\* updateFunnelStage(POST_PURCHASE_FOLLOWUP).
RecordPurchaseEffect(s, productId, value, failedReads, failAt) ==
  LET first == Apply(s, PurchaseWrites(productId, value), failAt)
  IN  IF ~first.ok THEN first
      ELSE Apply(first.store,
                 UpdateWrites(first.store, "post_purchase_followup", failedReads),
                 first.rest)

ProductIds == {"basic_plan", "pro_plan"}

PurchaseValues == {100}

RecordPurchase(productId, value, failedReads, failAt) ==
  LET effect == RecordPurchaseEffect(store, productId, value, failedReads, failAt)
  IN  /\ calls < MaxCalls
      /\ calls' = calls + 1
      /\ failAt = 0 \/ ~effect.ok
      /\ store' = effect.store
      /\ lastCall' = [op |-> "recordPurchase", arg |-> productId, value |-> value,
                      result |-> IF effect.ok THEN "ok"
                                 ELSE "Failed to record purchase",
                      failedReads |-> failedReads, failAt |-> failAt]
      /\ UNCHANGED now
      /\ UNCHANGED <<chatVars, histVars, splitVars, cacheVars, typingVars>>

\* `${offerType}_response_${Date.now()}` and `active_${offerType}`
ResponseKey(offerType) ==
  <<IF offerType = "upsell" THEN "upsell_response" ELSE "downsell_response", now>>

ActiveKey(offerType) ==
  <<IF offerType = "upsell" THEN "active_upsell" ELSE "active_downsell">>

\* The saveMemoryEntry calls of recordOfferResponse on store s before the
\* purchase (part_000 1827-1847 and 1857-1874).
ResponseWrites(s, offerType, targetPlanId, accepted, failedReads) ==
  LET activeUpsellMem ==
        GetLatestMemoryEntry(s, "active_upsell", "active_upsell" \in failedReads)
  IN  <<[key |-> ResponseKey(offerType), type |-> "sales_opportunity",
         value |-> [offer_type |-> offerType, target_plan_id |-> targetPlanId,
                    accepted |-> accepted, response_date |-> now]]>>
      \o (IF accepted
          THEN <<[key |-> ActiveKey(offerType), type |-> "sales_opportunity",
                  value |-> null]>>
          ELSE IF /\ offerType = "upsell"
                  /\ activeUpsellMem.found
                  /\ Truthy(activeUpsellMem.value)
          THEN <<[key |-> <<"rejected_upsell">>, type |-> "sales_opportunity",
                  value |-> [target_plan_id |-> TargetPlanId(activeUpsellMem.value),
                             rejection_time |-> now]]>>
          ELSE <<>>)

\* recordOfferResponse on store s (part_000 1819-1886): the response and,
\* when the offer is accepted, recordPurchase(targetPlanId, 0) and
\* updateFunnelStage(POST_PURCHASE_FOLLOWUP).
RecordOfferResponseEffect(s, offerType, targetPlanId, accepted, failedReads, failAt) ==
  LET first == Apply(s, ResponseWrites(s, offerType, targetPlanId, accepted,
                                       failedReads), failAt)
      second == RecordPurchaseEffect(first.store, targetPlanId, 0, failedReads,
                                     first.rest)
  IN  IF ~first.ok \/ ~accepted THEN first
      ELSE IF ~second.ok THEN second
      ELSE Apply(second.store,
                 UpdateWrites(second.store, "post_purchase_followup", failedReads),
                 second.rest)

\* Offers the assistant makes: an upsell and the downsell mapped to it.
Offers == {[offerType |-> "upsell", targetPlanId |-> "pro_plan"],
           [offerType |-> "downsell", targetPlanId |-> "basic_plus_plan"]}

RecordOfferResponse(offer, accepted, failedReads, failAt) ==
  LET effect == RecordOfferResponseEffect(store, offer.offerType, offer.targetPlanId,
                                          accepted, failedReads, failAt)
  IN  /\ calls < MaxCalls
      /\ calls' = calls + 1
      /\ failAt = 0 \/ ~effect.ok
      /\ store' = effect.store
      /\ lastCall' = [op |-> "recordOfferResponse", arg |-> offer.targetPlanId,
                      offerType |-> offer.offerType, accepted |-> accepted,
                      result |-> IF effect.ok THEN "ok"
                                 ELSE "Failed to record offer response",
                      failedReads |-> failedReads, failAt |-> failAt]
      /\ UNCHANGED now
      /\ UNCHANGED <<chatVars, histVars, splitVars, cacheVars, typingVars>>

\* Memory entries of the types determineCurrentStage reads (part_000
\* 315-322 and 359-362): a purchase of basic_plan, and the rejection of an
\* upsell to pro_plan.
PurchaseHistory ==
  <<[key |-> <<"purchased_product">>, type |-> "purchased_product",
     value |-> Str("basic_plan")],
    [key |-> <<"last_interaction">>, type |-> "last_interaction",
     value |-> [purchase_date |-> 0]]>>

RejectionHistory ==
  <<[key |-> <<"rejected_upsell">>, type |-> "rejected_upsell",
     value |-> [target_plan_id |-> "pro_plan", rejection_time |-> 0]]>>

\* Data sets imported into a conversation that has no memory entry.
ImportData ==
  {<<entry>> : entry \in ImportEntries}
  \cup {PurchaseHistory, PurchaseHistory \o RejectionHistory}

\* The most writes one operation makes.
MaxWrites == 11

\* Stage ids the assistant suggests during a sale.
SalesStages == {"upsell", "closing"}

(***************************************************************************)
(* The funnel engine from a purchase to the next offer: stage resolution,  *)
(* stage update and purchase, on a conversation that is new or was         *)
(* imported, over days.                                                    *)
(***************************************************************************)
NextSales ==
  \/ store = <<>> /\ \E data \in ImportData : ImportConversationData(data)
  \/ store # <<>> /\ \E d \in PurchaseAges : DaysPass(d)
  \/ \E newStage \in SalesStages : UpdateFunnelStage(newStage, {}, 0)
  \/ \E chatState \in ChatStates, failAt \in 0..1,
        failedReads \in SUBSET {"funnel_stage", "purchased_product",
                                "last_interaction", "rejected_upsell"} :
        DetermineCurrentStage(chatState, failedReads, failAt)
  \/ \E productId \in ProductIds, value \in PurchaseValues, failAt \in 0..MaxWrites :
        RecordPurchase(productId, value, {}, failAt)

SpecSales == Init /\ [][NextSales]_vars

(***************************************************************************)
(* The funnel engine around an offer: stage update and the response to an  *)
(* upsell or downsell, on a conversation that is new or was imported.      *)
(***************************************************************************)
NextOffers ==
  \/ store = <<>> /\ \E data \in ImportData : ImportConversationData(data)
  \/ ClockTick
  \/ \E newStage \in SalesStages : UpdateFunnelStage(newStage, {}, 0)
  \/ \E offer \in Offers, accepted \in BOOLEAN, failAt \in 0..MaxWrites :
        RecordOfferResponse(offer, accepted, {}, failAt)

SpecOffers == Init /\ [][NextOffers]_vars

(***************************************************************************)
(*                       Message batcher and dispatcher                   *)
(***************************************************************************)

\* C1: at most one processing run is active for the conversation at any
\* time, and it is the one stored in processingChats; a timer that fires
\* while a run is active pushes its fragments onto that run's pending list
\* and creates no second run.
C1_OneRunPerConversation ==
  /\ [](/\ Cardinality(ActiveRuns) <= 1
        /\ ActiveRuns = IF processingChats = 0 THEN {} ELSE {processingChats})
  /\ [][(flushes' = flushes + 1 /\ processingChats # 0) =>
          /\ Len(procs') = Len(procs)
          /\ processingChats' = processingChats
          /\ procs'[processingChats].pendingMessages =
               procs[processingChats].pendingMessages \o incomingMessages]_vars

\* A run is in the middle of a turn and fragments flushed meanwhile wait in
\* its pending list.
C1_Witness ==
  /\ processingChats # 0
  /\ procs[processingChats].pc = "ai"
  /\ procs[processingChats].pendingMessages # <<>>

\* C2 (as claimed): at most one queue sender holds a chunk at a time and no
\* chunk is sent after a chunk that was queued later than it.
C2_InOrderOneSender ==
  /\ Cardinality({s \in senders : s.pc = "typing"}) <= 1
  /\ ~reordered

Pairs == {f \in 2..Len(gapOf) : TRUE}

\* C3 (as claimed): consecutive fragments less than the debounce delay
\* apart are handed to the pipeline in one turn, consecutive fragments more
\* than the delay apart in two different turns.
C3_Original ==
  \A f \in Pairs :
     (frag[f - 1].turn # 0 /\ frag[f].turn # 0) =>
        /\ gapOf[f] = "lt" => frag[f - 1].turn = frag[f].turn
        /\ gapOf[f] = "gt" => frag[f - 1].turn # frag[f].turn

\* C3 (amended): consecutive fragments less than the debounce delay apart
\* are flushed by one timer firing and handed to the pipeline in one turn;
\* consecutive fragments more than the delay apart are flushed by two
\* different timer firings, and are handed over in two different turns
\* exactly when the second flush did not find the first fragment still
\* waiting in the pending list of the active run.
C3_DebounceTurns ==
  \A f \in Pairs :
     /\ gapOf[f] = "lt" =>
          /\ frag[f - 1].flush = frag[f].flush
          /\ frag[f - 1].turn = frag[f].turn
     /\ (gapOf[f] = "gt" /\ frag[f].flush # 0) =>
          /\ frag[f - 1].flush # 0
          /\ frag[f - 1].flush < frag[f].flush
     /\ (gapOf[f] = "gt" /\ frag[f].turn # 0) =>
          (frag[f - 1].turn = frag[f].turn <=> f \in merged)

\* Two fragments inside the window went out as one turn and a fragment
\* outside the window as another one.
C3_Witness ==
  /\ \E f \in Pairs : gapOf[f] = "lt" /\ frag[f].turn # 0
                      /\ frag[f - 1].turn = frag[f].turn
  /\ \E f \in Pairs : gapOf[f] = "gt" /\ frag[f].turn # 0
                      /\ frag[f - 1].turn # frag[f].turn

\* C4: a fragment pushed onto the pending list of a run stays there, the
\* run staying active, until that same run takes it in a turn; a run that
\* has ended has an empty pending list.
C4_PendingFoldedIntoSameRun ==
  /\ \A f \in Fragments :
        /\ frag[f].turnRun # 0 => frag[f].turnRun = frag[f].run
        /\ (frag[f].run # 0 /\ frag[f].turn = 0) =>
              /\ frag[f].run \in ActiveRuns
              /\ f \in Range(procs[frag[f].run].pendingMessages)
  /\ \A r \in 1..Len(procs) :
        procs[r].pc = "done" => procs[r].pendingMessages = <<>>

\* A fragment flushed while a run was active was taken by that run in a
\* later turn than the fragment that started the run.
C4_Witness ==
  \E f, g \in Fragments :
     /\ frag[g].flush # 0 /\ frag[g].flush < frag[f].flush
     /\ frag[f].run = frag[g].run
     /\ frag[g].turn # 0 /\ frag[g].turn < frag[f].turn
     /\ frag[f].turnRun = frag[g].run

\* C5: every run eventually ends and releases the conversation, whatever
\* fails during it, and a flush that finds no run starts a new one.
C5_RunEndsAndRestarts ==
  /\ (processingChats # 0) ~> (processingChats = 0)
  /\ [][(flushes' = flushes + 1 /\ processingChats = 0) =>
          /\ Len(procs') = Len(procs) + 1
          /\ processingChats' = Len(procs')
          /\ procs'[Len(procs')].pc # "done"
          /\ procs'[Len(procs')].pendingMessages = incomingMessages]_vars

\* The first run had a failed turn and has ended; a later fragment started
\* a second run.
C5_Witness ==
  /\ Len(procs) >= 2
  /\ procs[1].pc = "done"
  /\ \E f \in Fragments : frag[f].turnRun = 1 /\ frag[f].turn \in failed

\* C6 (as claimed): the fragments waiting in the pending list when the
\* model call or the delivery fails are never handed to the pipeline, and
\* no fragment is handed over twice.
C6_Original ==
  /\ \A f \in pendingAtFailure : frag[f].handed = 0
  /\ \A f \in Fragments : frag[f].handed <= 1

\* C6 (amended): the fragments waiting in the pending list when the model
\* call or the delivery fails are kept: each of them is still waiting in
\* the pending list of its run, which is still active, or has been handed
\* to the pipeline by that run; no fragment is handed over twice, and the
\* fragments of a failed turn are in no pending list again.
C6_FailureKeepsPending ==
  /\ \A f \in pendingAtFailure :
        \/ frag[f].handed = 1 /\ frag[f].turnRun = frag[f].run
        \/ /\ frag[f].handed = 0
           /\ frag[f].run \in ActiveRuns
           /\ f \in Range(procs[frag[f].run].pendingMessages)
  /\ \A f \in Fragments :
        /\ frag[f].handed <= 1
        /\ frag[f].turn \in failed => f \notin Waiting

\* A fragment that was waiting when a turn failed has been handed to the
\* pipeline afterwards.
C6_Witness ==
  \E f \in pendingAtFailure : frag[f].handed = 1 /\ frag[f].turn \notin failed

(***************************************************************************)
(*                             Chunk splitting                             *)
(***************************************************************************)

\* C7 (as claimed): every chunk returned by _splitMessage has length at
\* most maxCharsPerMessage, with and without paragraph splitting.
C7_ChunksWithinMax ==
  called => \A i \in 1..Len(chunks) : Len(chunks[i]) <= maxLength

\* A text above the maximum whose cut falls on a sentence end at the very
\* end of the window.
C7_SentenceEndAtWindowEnd ==
  /\ called
  /\ Len(content) > maxLength
  /\ \E i \in 1..Len(chunks) : Len(chunks[i]) = maxLength + 1

RECURSIVE Concat(_)
Concat(ss) == IF ss = <<>> THEN <<>> ELSE Head(ss) \o Concat(Tail(ss))

NonSpace(s) == SelectSeq(s, LAMBDA c : ~IsSpace(c))

\* C8: the chunks, concatenated in order, are the text with some white
\* space left out or normalised: the characters that are not white space
\* are the same, in the same order.
C8_ChunksReproduceText ==
  called => NonSpace(Concat(chunks)) = NonSpace(content)

\* A text was cut in at least two chunks, by paragraphs and then by
\* length, and white space of the text is not in the chunks.
C8_Witness ==
  /\ called
  /\ splitInParagraphs
  /\ Len(chunks) >= 3
  /\ Len(Concat(chunks)) < Len(content)
  /\ \E i \in 1..Len(chunks) : "." \in Range(chunks[i])

(***************************************************************************)
(*                              Funnel engine                              *)
(***************************************************************************)

\* The persisted stage: the value saved under key current_stage, null
\* when none is.
PersistedStage(s) == GetMemoryEntry(s, <<"current_stage">>, "funnel_stage").value

\* The target plans of the active upsells: the opportunities saved under
\* key active_upsell.
ActiveUpsellPlans(s) ==
  {TargetPlanId(TryParseJson(s[i].value)) :
     i \in {j \in 1..Len(s) : /\ s[j].key = <<"active_upsell">>
                              /\ Truthy(TryParseJson(s[j].value))}}

\* C9: a call of updateFunnelStage with a stage id outside the enum fails
\* with the invalid-stage error and leaves the store as it was: persisted
\* stage unchanged, no transition record, no rejection record, no active
\* downsell written.
C9_InvalidStageRejected ==
  [][(/\ calls' = calls + 1
      /\ lastCall'.op = "updateFunnelStage"
      /\ lastCall'.arg \notin FUNNEL_STAGES)
     => (/\ lastCall'.result = "Invalid funnel stage"
         /\ store' = store)]_vars

\* A call with an id outside the enum has failed on a conversation that
\* has a persisted stage and a transition record.
C9_Witness ==
  /\ lastCall.op = "updateFunnelStage"
  /\ lastCall.arg \notin FUNNEL_STAGES
  /\ lastCall.result = "Invalid funnel stage"
  /\ PersistedStage(store) = Str("upsell")
  /\ \E i \in 1..Len(store) : store[i].type = "funnel_analytics"

\* C10 (as claimed): a call of updateFunnelStage that succeeds, with every
\* read answered, for a valid stage other than upsell on a conversation
\* whose persisted stage is upsell and that has an active upsell to a plan
\* with a downsell mapping, leaves downsell as the persisted stage, a
\* rejection record for that plan with the time of the call, and the
\* mapped downsell as the active downsell.
C10_UpsellLeftForDownsell ==
  [][\A plan \in ActiveUpsellPlans(store) \cap DOMAIN DOWNSELL_ALTERNATIVES :
       (/\ calls' = calls + 1
        /\ lastCall'.op = "updateFunnelStage"
        /\ lastCall'.arg \in FUNNEL_STAGES \ {"upsell"}
        /\ lastCall'.result = "ok"
        /\ lastCall'.failedReads = {}
        /\ PersistedStage(store) = Str("upsell"))
       => (/\ PersistedStage(store') = Str("downsell")
           /\ GetMemoryEntry(store', <<"rejected_upsell">>, "sales_opportunity").value
                = [target_plan_id |-> plan, rejection_time |-> now]
           /\ GetMemoryEntry(store', <<"active_downsell">>, "sales_opportunity").value
                = DOWNSELL_ALTERNATIVES[plan])]_vars

\* The transition records of the store.
Transitions(s) ==
  {TryParseJson(s[i].value) : i \in {j \in 1..Len(s) : s[j].type = "funnel_analytics"}}

\* C11 (as claimed): a call of updateFunnelStage with a stage id of the enum
\* either writes both the persisted stage and its transition record (from,
\* to, time of the call) and succeeds, or reports the failure and leaves
\* the persisted stage and the transition records as they were.
C11_UpdateStageAllOrNothing ==
  [][(/\ calls' = calls + 1
      /\ lastCall'.op = "updateFunnelStage"
      /\ lastCall'.arg \in FUNNEL_STAGES)
     => IF lastCall'.result = "ok"
        THEN /\ PersistedStage(store') \in {Str(lastCall'.arg), Str("downsell")}
             /\ \E t \in Transitions(store') :
                   t.to = PersistedStage(store') /\ t.timestamp = now
        ELSE /\ PersistedStage(store') = PersistedStage(store)
             /\ Transitions(store') = Transitions(store)]_vars

RecordedProduct(s) == GetMemoryEntry(s, <<"purchased_product">>, "purchase_history").value

RecordedPurchaseDate(s) ==
  GetMemoryEntry(s, <<"last_interaction">>, "customer_journey").value.purchase_date

\* C13 (as claimed): for a conversation whose purchase of basic_plan was
\* recorded by recordPurchase, a call of determineCurrentStage in which
\* nothing fails returns upsell and stores the upsell to pro_plan as the
\* active upsell when the purchase is 7 days old, and returns another
\* stage and activates no upsell when it is 20 days old.
C13_UpsellSevenDaysAfterPurchase ==
  [][(/\ calls' = calls + 1
      /\ lastCall'.op = "determineCurrentStage"
      /\ lastCall'.failedReads = {}
      /\ ~lastCall'.writeFailed
      /\ RecordedProduct(store) = Str("basic_plan")
      /\ GetMemoryEntry(store, <<"last_interaction">>, "customer_journey").found)
     => LET days == CalculateDaysBetween(RecordedPurchaseDate(store), now)
        IN  /\ days = 7 => /\ lastCall'.result = "upsell"
                           /\ ActiveUpsellPlans(store') = {"pro_plan"}
            /\ days = 20 => /\ lastCall'.result # "upsell"
                            /\ ActiveUpsellPlans(store') = ActiveUpsellPlans(store)]_vars

\* C14 (as claimed): a call of determineCurrentStage in which a read or
\* the write fails returns the default stage greeting.
C14_FailureGivesDefaultStage ==
  [][(/\ calls' = calls + 1
      /\ lastCall'.op = "determineCurrentStage"
      /\ (lastCall'.failedReads # {} \/ lastCall'.writeFailed))
     => lastCall'.result = defaultStage]_vars

\* C15 (as claimed): after a call of determineCurrentStage in which nothing
\* fails on a conversation that had no persisted stage, the persisted
\* stage is the stage the call returned.
C15_ResolvedStagePersisted ==
  [][(/\ calls' = calls + 1
      /\ lastCall'.op = "determineCurrentStage"
      /\ lastCall'.failedReads = {}
      /\ ~lastCall'.writeFailed
      /\ PersistedStage(store) = null)
     => PersistedStage(store') = Str(lastCall'.result)]_vars

\* The entries of store s that hold an opportunity under the key.
ActiveEntries(s, key) ==
  {j \in 1..Len(s) : s[j].key = key /\ Truthy(TryParseJson(s[j].value))}

\* C16 (as claimed): a conversation has at most one active upsell and at
\* most one active downsell, and no active upsell is left after a call
\* that rejects the upsell (recordOfferResponse with accepted = false, or
\* updateFunnelStage leaving the stage upsell) or accepts it.
C16_OneActiveOpportunity ==
  [][/\ Cardinality(ActiveEntries(store', <<"active_upsell">>)) <= 1
     /\ Cardinality(ActiveEntries(store', <<"active_downsell">>)) <= 1
     /\ (/\ calls' = calls + 1
         /\ lastCall'.op = "recordOfferResponse"
         /\ lastCall'.offerType = "upsell"
         /\ lastCall'.result = "ok")
        => ActiveEntries(store', <<"active_upsell">>) = {}
     /\ (/\ calls' = calls + 1
         /\ lastCall'.op = "updateFunnelStage"
         /\ lastCall'.result = "ok"
         /\ PersistedStage(store) = Str("upsell")
         /\ PersistedStage(store') # Str("upsell"))
        => ActiveEntries(store', <<"active_upsell">>) = {}]_vars

\* C17 (as claimed): after every call of recordPurchase that succeeds the
\* persisted stage is post_purchase_followup.
C17_PurchaseGivesFollowup ==
  [][(/\ calls' = calls + 1
      /\ lastCall'.op = "recordPurchase"
      /\ lastCall'.result = "ok")
     => PersistedStage(store') = Str("post_purchase_followup")]_vars

\* The purchase fact of productId with the value, dated t, is in store s.
PurchaseFact(s, productId, value, t) ==
  /\ RecordedProduct(s) = Str(productId)
  /\ GetMemoryEntry(s, <<"purchase", t>>, "purchase_history").value
       = [product_id |-> productId, value |-> value, purchase_date |-> t]

\* The last-interaction marker of the purchase of productId at t is in store s.
PurchaseMarker(s, productId, t) ==
  GetMemoryEntry(s, <<"last_interaction">>, "customer_journey").value
    = [type |-> "purchase", purchase_date |-> t, product_id |-> productId]

\* C18: a call of recordPurchase in which a write of the stage transition
\* throws reports the failure and leaves the purchase fact and the
\* last-interaction marker it wrote in the store; a call in which nothing
\* throws succeeds and has written the purchase fact, the marker, the
\* persisted stage and the transition record to it.
C18_PurchaseNotRolledBack ==
  [][(calls' = calls + 1 /\ lastCall'.op = "recordPurchase")
     => /\ lastCall'.failAt > Len(PurchaseWrites(lastCall'.arg, lastCall'.value))
           => /\ lastCall'.result = "Failed to record purchase"
              /\ PurchaseFact(store', lastCall'.arg, lastCall'.value, now)
              /\ PurchaseMarker(store', lastCall'.arg, now)
        /\ lastCall'.failAt = 0
           => /\ lastCall'.result = "ok"
              /\ PurchaseFact(store', lastCall'.arg, lastCall'.value, now)
              /\ PurchaseMarker(store', lastCall'.arg, now)
              /\ PersistedStage(store') \in {Str("post_purchase_followup"),
                                             Str("downsell")}
              /\ \E t \in Transitions(store') :
                    t.to = PersistedStage(store') /\ t.timestamp = now]_vars

\* A purchase was recorded on a conversation in stage closing and the
\* write of the transition record threw: the purchase fact, the marker
\* and the new stage are in the store, the transition record is not.
C18_Witness ==
  /\ lastCall.op = "recordPurchase"
  /\ lastCall.result = "Failed to record purchase"
  /\ lastCall.failAt = 5
  /\ PurchaseFact(store, lastCall.arg, lastCall.value, now)
  /\ PurchaseMarker(store, lastCall.arg, now)
  /\ PersistedStage(store) = Str("post_purchase_followup")
  /\ \A t \in Transitions(store) : t.to # Str("post_purchase_followup")
  /\ \E t \in Transitions(store) : t.to = Str("closing")

\* The response record of the offer, dated t, with the answer.
ResponseRecord(offerType, targetPlanId, accepted, t) ==
  [offer_type |-> offerType, target_plan_id |-> targetPlanId,
   accepted |-> accepted, response_date |-> t]

\* The rejection record of the store: the entry under key rejected_upsell.
RejectionRecord(s) == GetMemoryEntry(s, <<"rejected_upsell">>, "sales_opportunity")

\* C19 (as claimed): after a call of recordOfferResponse with accepted =
\* true that succeeds, for an upsell and for a downsell, the response
\* record is in the store, the entry of the active opportunity of that
\* kind holds null, the purchase of targetPlanId with value 0 is recorded,
\* the persisted stage is post_purchase_followup, and the rejection record
\* is as it was before the call.
C19_AcceptedOfferIsPurchase ==
  [][(/\ calls' = calls + 1
      /\ lastCall'.op = "recordOfferResponse"
      /\ lastCall'.accepted
      /\ lastCall'.result = "ok")
     => /\ GetMemoryEntry(store', ResponseKey(lastCall'.offerType),
                          "sales_opportunity").value
             = ResponseRecord(lastCall'.offerType, lastCall'.arg, TRUE, now)
        /\ GetMemoryEntry(store', ActiveKey(lastCall'.offerType), "sales_opportunity")
             = [found |-> TRUE, value |-> null]
        /\ PurchaseFact(store', lastCall'.arg, 0, now)
        /\ PersistedStage(store') = Str("post_purchase_followup")
        /\ RejectionRecord(store') = RejectionRecord(store)]_vars

\* C20 (as claimed): a call of recordOfferResponse with accepted = false
\* that succeeds leaves the response record in the store; for an upsell it
\* leaves a rejection record of that upsell with the time of the call,
\* whether or not an active upsell is stored; for a downsell the response
\* record is all it writes.
C20_RejectedUpsellRecorded ==
  [][(/\ calls' = calls + 1
      /\ lastCall'.op = "recordOfferResponse"
      /\ ~lastCall'.accepted
      /\ lastCall'.result = "ok")
     => /\ GetMemoryEntry(store', ResponseKey(lastCall'.offerType),
                          "sales_opportunity").value
             = ResponseRecord(lastCall'.offerType, lastCall'.arg, FALSE, now)
        /\ lastCall'.offerType = "upsell"
           => RejectionRecord(store').value
                = [target_plan_id |-> lastCall'.arg, rejection_time |-> now]
        /\ lastCall'.offerType = "downsell"
           => store' = SaveMemoryEntry(store, ResponseKey("downsell"),
                                       ResponseRecord("downsell", lastCall'.arg,
                                                      FALSE, now),
                                       "sales_opportunity")]_vars

(***************************************************************************)
(* Upsell lookup harness: checkUpsellOpportunity applied to a purchased    *)
(* plan and a number of days since the purchase (part_000 331-342, the     *)
(* days come from calculateDaysBetween and are whole and not negative).    *)
(***************************************************************************)
MaxDays == 35

\* Plans a purchase is recorded for: the two with configured opportunities
\* and two without an entry in UPSELL_OPPORTUNITIES.
PurchasedPlans == {"basic_plan", "pro_plan", "enterprise_plan", "addon_training"}

\* One call of checkUpsellOpportunity; the store is not touched.
CheckUpsellCall(productId, daysSincePurchase) ==
  /\ lastCall' = [op |-> "checkUpsellOpportunity", arg |-> productId,
                  days |-> daysSincePurchase,
                  result |-> CheckUpsellOpportunity(productId, daysSincePurchase),
                  failedReads |-> {}]
  /\ UNCHANGED <<store, now, calls>>
  /\ UNCHANGED <<chatVars, histVars, splitVars, cacheVars, typingVars>>

NextUpsell ==
  \E productId \in PurchasedPlans, daysSincePurchase \in 0..MaxDays :
     CheckUpsellCall(productId, daysSincePurchase)

SpecUpsell == Init /\ [][NextUpsell]_vars

\* The day count the specification gives a timing bucket.
BucketDays(timing) ==
  CASE timing = "apos_3_dias" -> 3
    [] timing = "apos_7_dias" -> 7
    [] timing = "apos_30_dias" -> 30

\* The configured list of a plan, empty when it has none.
ConfiguredFor(productId) ==
  IF productId \in DOMAIN UPSELL_OPPORTUNITIES THEN UPSELL_OPPORTUNITIES[productId]
  ELSE <<>>

MaxPieces == 3

LowerCase == <<"a", "b", "c", "d", "e", "f", "g", "h", "i", "j", "k", "l", "m",
               "n", "o", "p", "q", "r", "s", "t", "u", "v", "w", "x", "y", "z">>

UpperCase == <<"A", "B", "C", "D", "E", "F", "G", "H", "I", "J", "K", "L", "M",
               "N", "O", "P", "Q", "R", "S", "T", "U", "V", "W", "X", "Y", "Z">>

Digits == {"0", "1", "2", "3", "4", "5", "6", "7", "8", "9"}

\* The i flag of the patterns: a letter is compared by its lower case.
Lower(c) ==
  IF c \in Range(UpperCase)
  THEN LowerCase[CHOOSE i \in 1..Len(UpperCase) : UpperCase[i] = c]
  ELSE c

\* [a-z0-9_-] under the i flag
IsIdChar(c) == Lower(c) \in Range(LowerCase) \cup Digits \cup {"_", "-"}

\* (prova_social|checkout|etapa|suporte), in the order of the alternation
CommandTypes ==
  << <<"p", "r", "o", "v", "a", "_", "s", "o", "c", "i", "a", "l">>,
     <<"c", "h", "e", "c", "k", "o", "u", "t">>,
     <<"e", "t", "a", "p", "a">>,
     <<"s", "u", "p", "o", "r", "t", "e">> >>

\* The word occurs in text right after position i.
WordAfter(text, i, word) ==
  /\ i + Len(word) <= Len(text)
  /\ \A j \in 1..Len(word) : Lower(text[i + j]) = word[j]

\* Index of the last character of "!type" matched at position i, 0 when
\* the pattern does not match there.
TypeEnd(text, i) ==
  IF text[i] # "!" THEN 0
  ELSE LET types == {k \in 1..Len(CommandTypes) : WordAfter(text, i, CommandTypes[k])}
       IN  IF types = {} THEN 0 ELSE i + Len(CommandTypes[Min(types)])

\* Index of the last character of the match of
\* /!(prova_social|checkout|etapa|suporte)(?::\s*[a-z0-9_-]+)?/gi at
\* position i, 0 when there is none: the optional group is taken when a
\* colon, any white space and at least one id character follow.
CommandEnd(text, i) ==
  LET e == TypeEnd(text, i)
  IN  IF e = 0 THEN 0
      ELSE IF e + 1 <= Len(text) /\ text[e + 1] = ":"
      THEN LET w == Min({j \in (e + 2)..(Len(text) + 1) :
                           j = Len(text) + 1 \/ ~IsSpace(text[j])})
               ids == {j \in w..Len(text) : \A k \in w..j : IsIdChar(text[k])}
           IN  IF ids = {} THEN e ELSE Max(ids)
      ELSE e

RECURSIVE ReplaceCommandsFrom(_, _)
\* content.replace(pattern, "") from position i on: the matches are found
\* from left to right in the original text and do not overlap.
ReplaceCommandsFrom(text, i) ==
  IF i > Len(text) THEN <<>>
  ELSE LET e == CommandEnd(text, i)
       IN  IF e > 0 THEN ReplaceCommandsFrom(text, e + 1)
           ELSE <<text[i]>> \o ReplaceCommandsFrom(text, i + 1)

RECURSIVE CollapseNewlinesFrom(_, _)
\* .replace(/\n{3,}/g, "\n\n") from position i on
CollapseNewlinesFrom(text, i) ==
  IF i > Len(text) THEN <<>>
  ELSE IF text[i] # "\n" THEN <<text[i]>> \o CollapseNewlinesFrom(text, i + 1)
  ELSE LET r == Max({j \in i..Len(text) : \A k \in i..j : text[k] = "\n"})
       IN  (IF r - i + 1 >= 3 THEN <<"\n", "\n">> ELSE SubSeq(text, i, r))
           \o CollapseNewlinesFrom(text, r + 1)

\* _removeSpecialCommands (aiHandler.js 605-614)
RemoveSpecialCommands(text) ==
  Trim(CollapseNewlinesFrom(ReplaceCommandsFrom(text, 1), 1))

\* Pieces the reply texts are put together from: a directive, a directive
\* cut in two, a directive in upper case, an id, and separators.
Pieces ==
  { <<"!", "e", "t", "a", "p", "a">>,
    <<"!", "e", "t", "a">>,
    <<"p", "a">>,
    <<"!", "S", "U", "P", "O", "R", "T", "E">>,
    <<":">>,
    <<" ">>,
    <<"\n", "\n">>,
    <<".">> }

RECURSIVE Join(_)
Join(pieces) == IF pieces = <<>> THEN <<>> ELSE Head(pieces) \o Join(Tail(pieces))

ReplyTexts == {Join(pieces) : pieces \in UNION {[1..n -> Pieces] : n \in 0..MaxPieces}}

\* _processAIResponse cleans the content of a reply (aiHandler.js 535-539).
RemoveCommandsCall(text) ==
  /\ lastCall' = [op |-> "_removeSpecialCommands", arg |-> text,
                  result |-> RemoveSpecialCommands(text), failedReads |-> {}]
  /\ UNCHANGED <<store, now, calls>>
  /\ UNCHANGED <<chatVars, histVars, splitVars, cacheVars, typingVars>>

NextDirectives == \E text \in ReplyTexts : RemoveCommandsCall(text)

SpecDirectives == Init /\ [][NextDirectives]_vars

\* C22: removing the directives is idempotent: removing them from an
\* already cleaned text gives the same text, also when a removal joined the
\* characters around a directive into a new one.
C22_RemoveCommandsIdempotent ==
  lastCall.op = "_removeSpecialCommands" =>
    RemoveSpecialCommands(lastCall.result) = lastCall.result

(***************************************************************************)
(* analyzeUpsellResponse (part_000 1712-1809).  A message is a sequence of *)
(* characters; an accented letter is one character, written as the letter  *)
(* followed by its accent ("a~", "o'", "c,", "o~").  Confidences are in    *)
(* hundredths.                                                             *)
(***************************************************************************)
MaxWords == 3

\* part_000 1718-1735
positiveIndicators ==
  << <<"s", "i", "m">>,
     <<"q", "u", "e", "r", "o">>,
     <<"a", "c", "e", "i", "t", "o">>,
     <<"c", "o", "n", "c", "o", "r", "d", "o">>,
     <<"i", "n", "t", "e", "r", "e", "s", "s", "a", "n", "t", "e">>,
     <<"g", "o", "s", "t", "e", "i">>,
     <<"v", "a", "m", "o", "s">>,
     <<"o'", "t", "i", "m", "o">>,
     <<"e", "x", "c", "e", "l", "e", "n", "t", "e">>,
     <<"p", "e", "r", "f", "e", "i", "t", "o">>,
     <<"b", "o", "m">>,
     <<"l", "e", "g", "a", "l">>,
     <<"p", "a", "r", "e", "c", "e", " ", "b", "o", "m">>,
     <<"m", "e", " ", "i", "n", "t", "e", "r", "e", "s", "s", "a">>,
     <<"b", "a", "c", "a", "n", "a">>,
     <<"g", "o", "s", "t", "a", "r", "i", "a">> >>

\* part_000 1738-1754
negativeIndicators ==
  << <<"n", "a~", "o">>,
     <<"a", "g", "o", "r", "a", " ", "n", "a~", "o">>,
     <<"t", "a", "l", "v", "e", "z", " ", "d", "e", "p", "o", "i", "s">>,
     <<"m", "u", "i", "t", "o", " ", "c", "a", "r", "o">>,
     <<"c", "a", "r", "o">>,
     <<"s", "e", "m", " ", "c", "o", "n", "d", "i", "c,", "o~", "e", "s">>,
     <<"p", "r", "e", "c", "i", "s", "o", " ", "p", "e", "n", "s", "a", "r">>,
     <<"n", "a~", "o", " ", "t", "e", "n", "h", "o", " ", "i", "n", "t", "e", "r", "e", "s", "s", "e">>,
     <<"n", "a~", "o", " ", "q", "u", "e", "r", "o">>,
     <<"r", "e", "c", "u", "s", "o">>,
     <<"n", "a~", "o", " ", "p", "o", "s", "s", "o">>,
     <<"n", "a~", "o", " ", "c", "o", "n", "s", "i", "g", "o">>,
     <<"d", "e", "i", "x", "a", " ", "p", "r", "a", " ", "d", "e", "p", "o", "i", "s">>,
     <<"o", "u", "t", "r", "a", " ", "h", "o", "r", "a">>,
     <<"n", "o", " ", "m", "o", "m", "e", "n", "t", "o", " ", "n", "a~", "o">> >>

\* String.prototype.indexOf(word): the first index (from 0) at which word
\* occurs in message, -1 when it does not occur.
IndexOf(message, word) ==
  LET at == {i \in 0..(Len(message) - Len(word)) :
               \A j \in 1..Len(word) : message[i + j] = word[j]}
  IN  IF at = {} THEN -1 ELSE Min(at)

\* String.prototype.includes(word)
Includes(message, word) == IndexOf(message, word) >= 0

\* String.prototype.toLowerCase
ToLowerCase(message) == [i \in 1..Len(message) |-> Lower(message[i])]

\* The indicators of a list that occur in the message (1760-1766).
Matches(message, indicators) ==
  {k \in 1..Len(indicators) : Includes(message, indicators[k])}

\* A confidence that is not capped at 0.95.
MutConfidence(matches) == 30 + matches * 20

\* Math.min(0.3 + matches * 0.2, 0.95) (1786, 1789)
Confidence(matches) == Min({30 + matches * 20, 95})

\* analyzeUpsellResponse (part_000 1712-1809)
AnalyzeUpsellResponse(userMessage) ==
  IF userMessage = <<>> THEN [accepted |-> FALSE, confidence |-> 0]
  ELSE
    LET message == ToLowerCase(userMessage)
        positiveMatches == Cardinality(Matches(message, positiveIndicators))
        negativeMatches == Cardinality(Matches(message, negativeIndicators))
    IN  IF positiveMatches > 0 /\ negativeMatches > 0
        THEN IF IndexOf(message, <<"n", "a~", "o">>) < IndexOf(message, <<"i", "n", "t", "e", "r", "e", "s", "s", "a", "n", "t", "e">>)
             THEN [accepted |-> FALSE, confidence |-> 60]
             ELSE [accepted |-> positiveMatches > negativeMatches, confidence |-> 60]
        ELSE IF positiveMatches > 0
        THEN [accepted |-> TRUE, confidence |-> Confidence(positiveMatches)]
        ELSE IF negativeMatches > 0
        THEN [accepted |-> FALSE, confidence |-> Confidence(negativeMatches)]
        ELSE IF Includes(message, <<"?">>)
        THEN [accepted |-> FALSE, confidence |-> 65]
        ELSE IF Len(message) < 10
        THEN [accepted |-> FALSE, confidence |-> 50]
        ELSE [accepted |-> FALSE, confidence |-> 55]

\* Words and phrases the user's replies are put together from; a reply is
\* its words separated by one space.
ReplyWords ==
  { <<"s", "i", "m">>,
    <<"Q", "u", "e", "r", "o">>,
    <<"p", "a", "r", "e", "c", "e", " ", "b", "o", "m">>,
    <<"i", "n", "t", "e", "r", "e", "s", "s", "a", "n", "t", "e">>,
    <<"n", "a~", "o">>,
    <<"m", "u", "i", "t", "o", " ", "c", "a", "r", "o">>,
    <<"t", "a", "l", "v", "e", "z">>,
    <<"?">> }

RECURSIVE JoinWords(_)
JoinWords(words) ==
  IF words = <<>> THEN <<>>
  ELSE IF Len(words) = 1 THEN words[1]
  ELSE words[1] \o <<" ">> \o JoinWords(Tail(words))

UserReplies == {JoinWords(words) : words \in UNION {[1..n -> ReplyWords] : n \in 0..MaxWords}}

\* One call of analyzeUpsellResponse on the user's reply to an offer.
AnalyzeCall(userMessage) ==
  /\ lastCall' = [op |-> "analyzeUpsellResponse", arg |-> userMessage,
                  result |-> AnalyzeUpsellResponse(userMessage), failedReads |-> {}]
  /\ UNCHANGED <<store, now, calls>>
  /\ UNCHANGED <<chatVars, histVars, splitVars, cacheVars, typingVars>>

NextAnalysis == \E userMessage \in UserReplies : AnalyzeCall(userMessage)

SpecAnalysis == Init /\ [][NextAnalysis]_vars

\* The positive and the negative indicators a reply hits.
PositiveHits(userMessage) == Matches(ToLowerCase(userMessage), positiveIndicators)

NegativeHits(userMessage) == Matches(ToLowerCase(userMessage), negativeIndicators)

\* Index of the first occurrence of a positive indicator in the reply.
FirstPositive(userMessage) ==
  Min({IndexOf(ToLowerCase(userMessage), positiveIndicators[k]) :
         k \in PositiveHits(userMessage)})

\* C23: a reply that hits both indicator lists is classified as not
\* accepted with confidence 0.6 when "nao" occurs before the first positive
\* indicator of the reply, whichever it is; otherwise it is accepted exactly
\* when it hits more positive than negative indicators, with confidence 0.6.
C23_NegationBeforeFirstPositive ==
  (/\ lastCall.op = "analyzeUpsellResponse"
   /\ PositiveHits(lastCall.arg) # {}
   /\ NegativeHits(lastCall.arg) # {}) =>
    LET nao == IndexOf(ToLowerCase(lastCall.arg), <<"n", "a~", "o">>)
    IN  /\ lastCall.result.confidence = 60
        /\ lastCall.result.accepted =
              IF nao >= 0 /\ nao < FirstPositive(lastCall.arg) THEN FALSE
              ELSE Cardinality(PositiveHits(lastCall.arg))
                     > Cardinality(NegativeHits(lastCall.arg))

\* C24: a reply that hits only positive indicators is accepted, one that
\* hits only negative indicators is not, in both cases with confidence
\* min(0.3 + 0.2 n, 0.95) for the n indicators hit, which is at least 0.5.
C24_SinglePolarityConfidence ==
  lastCall.op = "analyzeUpsellResponse" =>
    LET p == Cardinality(PositiveHits(lastCall.arg))
        n == Cardinality(NegativeHits(lastCall.arg))
    IN  /\ (p > 0 /\ n = 0) =>
               /\ lastCall.result.accepted
               /\ lastCall.result.confidence = (IF 30 + 20 * p < 95 THEN 30 + 20 * p ELSE 95)
        /\ (n > 0 /\ p = 0) =>
               /\ ~lastCall.result.accepted
               /\ lastCall.result.confidence = (IF 30 + 20 * n < 95 THEN 30 + 20 * n ELSE 95)
        /\ ((p > 0) # (n > 0)) => lastCall.result.confidence >= 50

\* A reply that hits four positive indicators and no negative one got the
\* capped confidence.
C24_Witness ==
  /\ lastCall.op = "analyzeUpsellResponse"
  /\ Cardinality(PositiveHits(lastCall.arg)) = 4
  /\ NegativeHits(lastCall.arg) = {}
  /\ lastCall.result = [accepted |-> TRUE, confidence |-> 95]

(***************************************************************************)
(* _detectStageSuggestion (aiHandler.js 623-701).                          *)
(***************************************************************************)
MaxParts == 2

\* The spelling of the stage ids of FUNNEL_STAGES (part_000 18-46).
StageSpelling ==
  [stage \in FUNNEL_STAGES |->
     CASE stage = "greeting" -> <<"g", "r", "e", "e", "t", "i", "n", "g">>
       [] stage = "qualification" -> <<"q", "u", "a", "l", "i", "f", "i", "c", "a", "t", "i", "o", "n">>
       [] stage = "need_discovery" -> <<"n", "e", "e", "d", "_", "d", "i", "s", "c", "o", "v", "e", "r", "y">>
       [] stage = "pain_point_exploration" -> <<"p", "a", "i", "n", "_", "p", "o", "i", "n", "t", "_", "e", "x", "p", "l", "o", "r", "a", "t", "i", "o", "n">>
       [] stage = "solution_presentation" -> <<"s", "o", "l", "u", "t", "i", "o", "n", "_", "p", "r", "e", "s", "e", "n", "t", "a", "t", "i", "o", "n">>
       [] stage = "product_demonstration" -> <<"p", "r", "o", "d", "u", "c", "t", "_", "d", "e", "m", "o", "n", "s", "t", "r", "a", "t", "i", "o", "n">>
       [] stage = "value_proposition" -> <<"v", "a", "l", "u", "e", "_", "p", "r", "o", "p", "o", "s", "i", "t", "i", "o", "n">>
       [] stage = "proof_and_credibility" -> <<"p", "r", "o", "o", "f", "_", "a", "n", "d", "_", "c", "r", "e", "d", "i", "b", "i", "l", "i", "t", "y">>
       [] stage = "objection_handling" -> <<"o", "b", "j", "e", "c", "t", "i", "o", "n", "_", "h", "a", "n", "d", "l", "i", "n", "g">>
       [] stage = "price_discussion" -> <<"p", "r", "i", "c", "e", "_", "d", "i", "s", "c", "u", "s", "s", "i", "o", "n">>
       [] stage = "closing" -> <<"c", "l", "o", "s", "i", "n", "g">>
       [] stage = "checkout" -> <<"c", "h", "e", "c", "k", "o", "u", "t">>
       [] stage = "post_purchase_followup" -> <<"p", "o", "s", "t", "_", "p", "u", "r", "c", "h", "a", "s", "e", "_", "f", "o", "l", "l", "o", "w", "u", "p">>
       [] stage = "upsell" -> <<"u", "p", "s", "e", "l", "l">>
       [] stage = "downsell" -> <<"d", "o", "w", "n", "s", "e", "l", "l">>
       [] stage = "cross_sell" -> <<"c", "r", "o", "s", "s", "_", "s", "e", "l", "l">>
       [] stage = "reactivation" -> <<"r", "e", "a", "c", "t", "i", "v", "a", "t", "i", "o", "n">>
       [] stage = "feedback" -> <<"f", "e", "e", "d", "b", "a", "c", "k">>]

\* The stage id a sequence of characters spells, "none" when it spells none
\* (Object.values(FUNNEL_STAGES).includes, aiHandler.js 630).
StageNamed(chars) ==
  IF \E stage \in FUNNEL_STAGES : StageSpelling[stage] = chars
  THEN CHOOSE stage \in FUNNEL_STAGES : StageSpelling[stage] = chars
  ELSE "none"

\* [a-z_] under the i flag
IsStageChar(c) == Lower(c) \in Range(LowerCase) \cup {"_"}

\* The positions (from 1) at which /!etapa:([a-z_]+)/i matches.
StageCommandsAt(text) ==
  {i \in 1..Len(text) :
     /\ text[i] = "!"
     /\ WordAfter(text, i, <<"e", "t", "a", "p", "a">>)
     /\ i + 7 <= Len(text)
     /\ text[i + 6] = ":"
     /\ IsStageChar(text[i + 7])}

\* The group captured by the match at position i, in lower case (627).
CapturedStage(text, i) ==
  LET last == Max({j \in (i + 7)..Len(text) :
                     \A k \in (i + 7)..j : IsStageChar(text[k])})
  IN  ToLowerCase(SubSeq(text, i + 7, last))

\* stageIndicators (aiHandler.js 637-686), in the order of its keys
stageIndicators ==
  << [stage |-> "qualification",
      patterns |->
        << <<"p", "o", "d", "e", "r", "i", "a", " ", "m", "e", " ", "c", "o", "n", "t", "a", "r", " ", "m", "a", "i", "s", " ", "s", "o", "b", "r", "e">>,
           <<"m", "e", " ", "f", "a", "l", "e", " ", "u", "m", " ", "p", "o", "u", "c", "o", " ", "s", "o", "b", "r", "e", " ", "s", "u", "a", " ", "e", "m", "p", "r", "e", "s", "a">>,
           <<"q", "u", "a", "n", "t", "o", "s", " ", "f", "u", "n", "c", "i", "o", "n", "a'", "r", "i", "o", "s", " ", "v", "o", "c", "e^", "s", " ", "t", "e^", "m">>,
           <<"q", "u", "a", "l", " ", "o", " ", "t", "a", "m", "a", "n", "h", "o", " ", "d", "a", " ", "s", "u", "a", " ", "o", "p", "e", "r", "a", "c,", "a~", "o">> >>],
     [stage |-> "need_discovery",
      patterns |->
        << <<"q", "u", "a", "i", "s", " ", "s", "a~", "o", " ", "o", "s", " ", "p", "r", "i", "n", "c", "i", "p", "a", "i", "s", " ", "d", "e", "s", "a", "f", "i", "o", "s">>,
           <<"o", " ", "q", "u", "e", " ", "v", "o", "c", "e^", " ", "b", "u", "s", "c", "a", " ", "r", "e", "s", "o", "l", "v", "e", "r">>,
           <<"q", "u", "a", "i", "s", " ", "p", "r", "o", "b", "l", "e", "m", "a", "s", " ", "v", "o", "c", "e^", " ", "e", "n", "f", "r", "e", "n", "t", "a">>,
           <<"o", " ", "q", "u", "e", " ", "t", "e", "m", " ", "s", "i", "d", "o", " ", "d", "i", "f", "i'", "c", "i", "l", " ", "n", "o", " ", "s", "e", "u", " ", "p", "r", "o", "c", "e", "s", "s", "o">> >>],
     [stage |-> "pain_point_exploration",
      patterns |->
        << <<"q", "u", "a", "n", "t", "o", " ", "i", "s", "s", "o", " ", "t", "e", "m", " ", "c", "u", "s", "t", "a", "d", "o", " ", "p", "a", "r", "a", " ", "v", "o", "c", "e^">>,
           <<"q", "u", "a", "l", " ", "o", " ", "i", "m", "p", "a", "c", "t", "o", " ", "d", "e", "s", "s", "e", " ", "p", "r", "o", "b", "l", "e", "m", "a">>,
           <<"c", "o", "m", "o", " ", "i", "s", "s", "o", " ", "a", "f", "e", "t", "a", " ", "s", "e", "u", "s", " ", "r", "e", "s", "u", "l", "t", "a", "d", "o", "s">>,
           <<"q", "u", "e", " ", "c", "o", "n", "s", "e", "q", "u", "e^", "n", "c", "i", "a", "s", " ", "i", "s", "s", "o", " ", "t", "r", "a", "z">> >>],
     [stage |-> "solution_presentation",
      patterns |->
        << <<"n", "o", "s", "s", "a", " ", "s", "o", "l", "u", "c,", "a~", "o", " ", "p", "o", "d", "e", " ", "a", "j", "u", "d", "a", "r">>,
           <<"t", "e", "m", "o", "s", " ", "u", "m", "a", " ", "s", "o", "l", "u", "c,", "a~", "o", " ", "q", "u", "e">>,
           <<"n", "o", "s", "s", "o", " ", "p", "r", "o", "d", "u", "t", "o", " ", "r", "e", "s", "o", "l", "v", "e", " ", "i", "s", "s", "o">>,
           <<"d", "e", "i", "x", "e", "-", "m", "e", " ", "a", "p", "r", "e", "s", "e", "n", "t", "a", "r", " ", "c", "o", "m", "o", " ", "p", "o", "d", "e", "m", "o", "s">> >>],
     [stage |-> "value_proposition",
      patterns |->
        << <<"o", " ", "v", "a", "l", "o", "r", " ", "q", "u", "e", " ", "e", "n", "t", "r", "e", "g", "a", "m", "o", "s">>,
           <<"o", " ", "r", "e", "t", "o", "r", "n", "o", " ", "s", "o", "b", "r", "e", " ", "o", " ", "i", "n", "v", "e", "s", "t", "i", "m", "e", "n", "t", "o">>,
           <<"n", "o", "s", "s", "o", "s", " ", "c", "l", "i", "e", "n", "t", "e", "s", " ", "c", "o", "n", "s", "e", "g", "u", "e", "m">>,
           <<"e", "m", " ", "t", "e", "r", "m", "o", "s", " ", "d", "e", " ", "r", "e", "s", "u", "l", "t", "a", "d", "o", "s">> >>],
     [stage |-> "objection_handling",
      patterns |->
        << <<"e", "n", "t", "e", "n", "d", "o", " ", "s", "u", "a", " ", "p", "r", "e", "o", "c", "u", "p", "a", "c,", "a~", "o">>,
           <<"e'", " ", "n", "a", "t", "u", "r", "a", "l", " ", "t", "e", "r", " ", "e", "s", "s", "a", " ", "d", "u'", "v", "i", "d", "a">>,
           <<"m", "u", "i", "t", "o", "s", " ", "c", "l", "i", "e", "n", "t", "e", "s", " ", "t", "a", "m", "b", "e'", "m", " ", "q", "u", "e", "s", "t", "i", "o", "n", "a", "m">>,
           <<"c", "o", "m", "p", "r", "e", "e", "n", "d", "o", " ", "s", "e", "u", " ", "p", "o", "n", "t", "o">> >>],
     [stage |-> "price_discussion",
      patterns |->
        << <<"o", " ", "i", "n", "v", "e", "s", "t", "i", "m", "e", "n", "t", "o", " ", "p", "a", "r", "a">>,
           <<"n", "o", "s", "s", "o", "s", " ", "p", "r", "e", "c,", "o", "s", " ", "s", "a~", "o">>,
           <<"t", "e", "m", "o", "s", " ", "d", "i", "f", "e", "r", "e", "n", "t", "e", "s", " ", "p", "l", "a", "n", "o", "s">>,
           <<"o", " ", "v", "a", "l", "o", "r", " ", "d", "o", " ", "n", "o", "s", "s", "o", " ", "p", "r", "o", "d", "u", "t", "o">> >>],
     [stage |-> "closing",
      patterns |->
        << <<"p", "o", "d", "e", "m", "o", "s", " ", "s", "e", "g", "u", "i", "r", " ", "c", "o", "m">>,
           <<"q", "u", "a", "l", " ", "p", "l", "a", "n", "o", " ", "f", "a", "z", " ", "m", "a", "i", "s", " ", "s", "e", "n", "t", "i", "d", "o", " ", "p", "a", "r", "a", " ", "v", "o", "c", "e^">>,
           <<"q", "u", "e", "r", " ", "c", "o", "m", "e", "c,", "a", "r", " ", "c", "o", "m">>,
           <<"v", "a", "m", "o", "s", " ", "a", "v", "a", "n", "c,", "a", "r", " ", "c", "o", "m">> >>] >>

\* pattern.test(content) for a pattern with the i flag
Test(pattern, text) == Includes(ToLowerCase(text), pattern)

\* A detection in which the current stage is not skipped.
MutIndicated(text, currentStage) ==
  {k \in 1..Len(stageIndicators) :
     \E n \in 1..Len(stageIndicators[k].patterns) :
        Test(stageIndicators[k].patterns[n], text)}

\* The entries of stageIndicators, other than the current stage, one of
\* whose patterns occurs in the text (689-698).
Indicated(text, currentStage) ==
  {k \in 1..Len(stageIndicators) :
     /\ stageIndicators[k].stage # currentStage
     /\ \E n \in 1..Len(stageIndicators[k].patterns) :
           Test(stageIndicators[k].patterns[n], text)}

\* _detectStageSuggestion (aiHandler.js 623-701); "none" stands for null.
DetectStageSuggestion(text, currentStage) ==
  LET commands == StageCommandsAt(text)
      suggestedStage ==
        IF commands = {} THEN "none"
        ELSE StageNamed(CapturedStage(text, Min(commands)))
      indicated == Indicated(text, currentStage)
  IN  IF suggestedStage # "none" THEN suggestedStage
      ELSE IF indicated # {} THEN stageIndicators[Min(indicated)].stage
      ELSE "none"

\* Parts the texts given to the detection are put together from: stage
\* directives with a valid and with an unknown id, phrases of three stages,
\* a space and a letter.
ReplyParts ==
  { <<"!", "e", "t", "a", "p", "a", ":", "c", "l", "o", "s", "i", "n", "g">>,
    <<"!", "e", "t", "a", "p", "a", ":", "b", "o", "g", "u", "s">>,
    <<"!", "E", "T", "A", "P", "A", ":", "U", "p", "s", "e", "l", "l">>,
    <<"p", "o", "d", "e", "m", "o", "s", " ", "s", "e", "g", "u", "i", "r", " ", "c", "o", "m">>,
    <<"O", " ", "i", "n", "v", "e", "s", "t", "i", "m", "e", "n", "t", "o", " ", "p", "a", "r", "a">>,
    <<"n", "o", "s", "s", "a", " ", "s", "o", "l", "u", "c,", "a~", "o", " ", "p", "o", "d", "e", " ", "a", "j", "u", "d", "a", "r">>,
    <<" ">>,
    <<"a">> }

DetectionTexts == {Join(parts) : parts \in UNION {[1..n -> ReplyParts] : n \in 0..MaxParts}}

\* Current stages of the turn in which the detection runs.
CurrentStages == {"greeting", "closing", "price_discussion"}

\* processUserMessage asks for the stage a reply suggests (aiHandler.js 188-191).
DetectCall(text, currentStage) ==
  /\ lastCall' = [op |-> "_detectStageSuggestion", arg |-> text,
                  currentStage |-> currentStage,
                  result |-> DetectStageSuggestion(text, currentStage),
                  failedReads |-> {}]
  /\ UNCHANGED <<store, now, calls>>
  /\ UNCHANGED <<chatVars, histVars, splitVars, cacheVars, typingVars>>

NextDetection ==
  \E text \in DetectionTexts, currentStage \in CurrentStages :
     DetectCall(text, currentStage)

SpecDetection == Init /\ [][NextDetection]_vars

\* The stage ids in the order in which their phrases are looked for.
PhraseOrder ==
  <<"qualification", "need_discovery", "pain_point_exploration",
    "solution_presentation", "value_proposition", "objection_handling",
    "price_discussion", "closing">>

\* A phrase of the stage occurs in the text.
HasPhraseOf(text, stage) ==
  \E k \in 1..Len(stageIndicators) :
     /\ stageIndicators[k].stage = stage
     /\ \E n \in 1..Len(stageIndicators[k].patterns) :
           Includes(ToLowerCase(text), stageIndicators[k].patterns[n])

RECURSIVE ExtractCommandsFrom(_, _)
\* _extractSpecialCommands (aiHandler.js 576-597) from position i on: the
\* type in lower case and the id of every match, in order.
ExtractCommandsFrom(text, i) ==
  IF i > Len(text) THEN <<>>
  ELSE LET e == CommandEnd(text, i)
           t == TypeEnd(text, i)
       IN  IF e = 0 THEN ExtractCommandsFrom(text, i + 1)
           ELSE <<[type |-> ToLowerCase(SubSeq(text, i + 1, t)),
                   id |-> IF e = t THEN <<>>
                          ELSE SelectSeq(SubSeq(text, t + 2, e),
                                         LAMBDA c : ~IsSpace(c))]>>
                \o ExtractCommandsFrom(text, e + 1)

ExtractSpecialCommands(text) == ExtractCommandsFrom(text, 1)

\* The fallback of processUserMessage (aiHandler.js 272-275) and the error
\* message of _processTextMessage (chatHandler.js 339-342): the same text.
Apology ==
  <<"D", "e", "s", "c", "u", "l", "p", "e", ",", " ", "e", "s", "t", "o", "u", " ", "e", "n", "f", "r", "e", "n", "t", "a", "n", "d", "o", " ", "d", "i", "f", "i", "c", "u", "l", "d", "a", "d", "e", "s", " ", "t", "e'", "c", "n", "i", "c", "a", "s", " ", "n", "o", " ", "m", "o", "m", "e", "n", "t", "o", ".", " ", "P", "o", "d", "e", "r", "i", "a", " ", "t", "e", "n", "t", "a", "r", " ", "n", "o", "v", "a", "m", "e", "n", "t", "e", " ", "e", "m", " ", "a", "l", "g", "u", "n", "s", " ", "i", "n", "s", "t", "a", "n", "t", "e", "s", "?">>

\* new Date().toISOString() at time t
IsoString(t) == [string |-> "toISOString", time |-> t]

\* A threshold that lets a confidence of 0.7 through.
MutConfident(confidence) == confidence >= 70

\* responseAnalysis.confidence > 0.7 (aiHandler.js 219)
Confident(confidence) == confidence > 70

\* processUserMessage on store s (aiHandler.js 119-279) for the user's text,
\* the chat state and the outcome of the model call (ok and the content of
\* the reply, or not ok when the prompt or the call throws); failAt is the
\* saveMemoryEntry call of the turn that throws.
ProcessUserMessage(s, userMessage, chatState, aiResponse, failAt) ==
  LET \* 214-261: the offer analysis, its record and the result
      Answered(staged, currentFunnelStage, specialCommands, cleaned, detected,
               offerMem, responseAnalysis) ==
        LET suggestedStage == IF detected # "none" /\ detected # currentFunnelStage
                              THEN detected ELSE "none"
            inOffer == currentFunnelStage \in {"upsell", "downsell"}
            analysed == aiResponse.ok /\ inOffer /\ HasValue(offerMem)
            recorded == analysed /\ Confident(responseAnalysis.confidence)
            Result(answered, fallback) ==
              [store |-> answered.store,
               rest |-> answered.rest,
               afterStage |-> staged.store,
               stage |-> currentFunnelStage,
               commands |-> IF fallback THEN <<>> ELSE specialCommands,
               analysed |-> analysed,
               confidence |-> IF analysed THEN responseAnalysis.confidence ELSE 0,
               recorded |-> recorded,
               fallback |-> fallback,
               content |-> IF fallback THEN Apology ELSE cleaned,
               suggestedStage |-> IF fallback THEN "none" ELSE suggestedStage]
            Recorded(answered) == Result(answered, ~aiResponse.ok \/ ~answered.ok)
        IN  Recorded(IF recorded
                     THEN RecordOfferResponseEffect(staged.store, currentFunnelStage,
                                                    TargetPlanId(offerMem.value),
                                                    responseAnalysis.accepted, {},
                                                    staged.rest)
                     ELSE [store |-> staged.store, ok |-> TRUE, rest |-> staged.rest])
      \* 180-212: the reply without its directives, the stage it suggests
      \* and the active offer of the stage
      Replied(staged, currentFunnelStage, specialCommands, cleaned) ==
        Answered(staged, currentFunnelStage, specialCommands, cleaned,
                 DetectStageSuggestion(cleaned, currentFunnelStage),
                 GetLatestMemoryEntry(staged.store,
                                      IF currentFunnelStage = "upsell"
                                      THEN "active_upsell" ELSE "active_downsell",
                                      FALSE),
                 AnalyzeUpsellResponse(userMessage))
      \* 150-160: the stage of the turn, the default one when its record
      \* cannot be written
      Staged(outcome, staged, specialCommands) ==
        Replied(staged,
                IF staged.ok THEN outcome.returned ELSE defaultStage,
                specialCommands,
                IF specialCommands # <<>>
                THEN RemoveSpecialCommands(aiResponse.content)
                ELSE aiResponse.content)
      Resolved(outcome, specialCommands) ==
        Staged(outcome, Apply(s, outcome.writes, failAt), specialCommands)
  IN  Resolved(DetermineOutcome(s, chatState, {}),
               ExtractSpecialCommands(aiResponse.content))

\* botConfig.behavior.messageSettings (part_004 190-198):
\* maxCharsPerMessage is read from the environment and clamped to
\* 100..4000 (1000 when unset); the lower end and the default are taken.
MessageSettings ==
  {[maxCharsPerMessage |-> m, splitInParagraphs |-> p] :
     m \in {100, 1000}, p \in BOOLEAN}

DefaultMessageSettings == [maxCharsPerMessage |-> 1000, splitInParagraphs |-> TRUE]

\* The body of _processTextMessage (chatHandler.js 304-349) for replies
\* whose directives are stage directives, which _processSpecialActions
\* passes over (559-561): processUserMessage, _saveChatState (its failure
\* is logged, 1151-1200), updateFunnelStage when a stage is suggested, and
\* _sendResponse, which splits the text and queues the chunks unless the
\* text is blank or getChatById throws (778-799).  An error of
\* updateFunnelStage is caught at 335 and the apology is sent instead of
\* the reply.
TextMessageTurn(text, chatState, aiResponse, failAt, delivered, messageSettings) ==
  \E turn \in {ProcessUserMessage(store, text, chatState, aiResponse, failAt)} :
  \E saved \in {Apply(turn.store,
                      <<[key |-> <<"last_interaction">>, type |-> "session_info",
                         value |-> IsoString(now)]>>,
                      turn.rest)} :
  \E updated \in {IF turn.suggestedStage # "none"
                   THEN Apply(saved.store,
                              UpdateWrites(saved.store, turn.suggestedStage, {}),
                              saved.rest)
                   ELSE [store |-> saved.store, ok |-> TRUE, rest |-> saved.rest]} :
  \E reply \in {IF updated.ok THEN turn.content ELSE Apology} :
  \E queued \in {IF Trim(reply) = <<>> \/ ~delivered THEN <<>>
                  ELSE SplitMessage(reply, messageSettings.maxCharsPerMessage,
                                    messageSettings.splitInParagraphs)} :
      /\ \A n \in 1..Len(ExtractSpecialCommands(aiResponse.content)) :
            ExtractSpecialCommands(aiResponse.content)[n].type
              = <<"e", "t", "a", "p", "a">>
      /\ failAt = 0 \/ updated.rest = 0
      /\ delivered \/ Trim(reply) # <<>>
      /\ store' = updated.store
      /\ lastCall' = [op |-> "_processTextMessage", arg |-> text,
                      aiResponse |-> aiResponse, stage |-> turn.stage,
                      analysed |-> turn.analysed, confidence |-> turn.confidence,
                      recorded |-> turn.recorded, fallback |-> turn.fallback,
                      afterStage |-> turn.afterStage, afterAnalysis |-> turn.store,
                      suggestedStage |-> turn.suggestedStage,
                      updateFailed |-> ~updated.ok,
                      reply |-> reply, delivered |-> delivered,
                      messageSettings |-> messageSettings,
                      queued |-> queued, failedReads |-> {}, failAt |-> failAt]
      /\ UNCHANGED now

\* _processTextMessage (chatHandler.js 304-349) with the default message
\* settings, as a call of its own.
ProcessTextMessage(text, chatState, aiResponse, failAt, delivered) ==
  /\ calls < MaxCalls
  /\ calls' = calls + 1
  /\ TextMessageTurn(text, chatState, aiResponse, failAt, delivered,
                     DefaultMessageSettings)
  /\ UNCHANGED <<chatVars, histVars, splitVars, cacheVars, typingVars>>

\* Replies of the model: plain, with a stage directive, with a phrase of
\* the closing stage, with both, and a stage directive alone.
AiContents ==
  { <<"o", "k">>,
    <<"!", "e", "t", "a", "p", "a", ":", "c", "l", "o", "s", "i", "n", "g", " ", "o", "k">>,
    <<"p", "o", "d", "e", "m", "o", "s", " ", "s", "e", "g", "u", "i", "r", " ", "c", "o", "m">>,
    <<"!", "e", "t", "a", "p", "a", ":", "c", "l", "o", "s", "i", "n", "g", " ", "p", "o", "d", "e", "m", "o", "s", " ", "s", "e", "g", "u", "i", "r", " ", "c", "o", "m">>,
    <<"!", "e", "t", "a", "p", "a", ":", "u", "p", "s", "e", "l", "l">> }

ModelFailure == [ok |-> FALSE, content |-> <<>>]

AiResponses == {[ok |-> TRUE, content |-> reply] : reply \in AiContents}

\* What the user writes in the turn: replies to an offer with one, two and
\* three positive indicators and with three negative ones.
TurnTexts ==
  { <<"s", "i", "m">>,
    <<"s", "i", "m", " ", "Q", "u", "e", "r", "o">>,
    <<"s", "i", "m", " ", "Q", "u", "e", "r", "o", " ", "i", "n", "t", "e", "r", "e", "s", "s", "a", "n", "t", "e">>,
    <<"n", "a~", "o", " ", "m", "u", "i", "t", "o", " ", "c", "a", "r", "o">> }

\* Chat states handed to the turn.
TurnChatStates == {[messageCount |-> 3, signals |-> {}]}

\* An active downsell of the type processUserMessage reads (aiHandler.js
\* 205-212), next to the imported active upsells.
ActiveDownsell ==
  <<[key |-> <<"active_downsell">>, type |-> "active_downsell",
     value |-> [targetPlanId |-> "basic_plus_plan"]]>>

TurnImports == {<<entry>> : entry \in ImportEntries} \cup {ActiveDownsell}

\* Stage ids the assistant moves a conversation to before the turn.
OfferStages == {"upsell", "downsell"}

(***************************************************************************)
(* Turns whose store calls succeed, on a conversation that is new or was   *)
(* imported and whose stage the assistant has set.                         *)
(***************************************************************************)
NextTurn ==
  \/ store = <<>> /\ \E data \in TurnImports : ImportConversationData(data)
  \/ \E newStage \in OfferStages : UpdateFunnelStage(newStage, {}, 0)
  \/ \E text \in TurnTexts, chatState \in TurnChatStates, aiResponse \in AiResponses :
        ProcessTextMessage(text, chatState, aiResponse, 0, TRUE)

SpecTurn == Init /\ [][NextTurn]_vars

\* The kind of offer a stage is about.
OfferKind(stage) == IF stage = "upsell" THEN "active_upsell" ELSE "active_downsell"

\* C25: in a turn recordOfferResponse is called only if the stage resolved
\* for the turn is upsell or downsell, an active offer of that kind is
\* stored and the confidence of the analysis of the user's text is above
\* 0.7; with a confidence of 0.7 or less the offer analysis writes nothing:
\* the store is as the stage resolution left it.
C25_OfferRecordedOnlyWhenConfident ==
  lastCall.op = "_processTextMessage" =>
    LET analysis == AnalyzeUpsellResponse(lastCall.arg)
        offer == GetLatestMemoryEntry(lastCall.afterStage, OfferKind(lastCall.stage), FALSE)
    IN  /\ lastCall.recorded =>
              /\ lastCall.stage \in {"upsell", "downsell"}
              /\ offer.found /\ Truthy(offer.value)
              /\ analysis.confidence > 70
        /\ analysis.confidence <= 70 =>
              /\ ~lastCall.recorded
              /\ lastCall.afterAnalysis = lastCall.afterStage
        /\ ~lastCall.recorded => lastCall.afterAnalysis = lastCall.afterStage

\* A reply with confidence 0.9 to a stored downsell was recorded as a
\* rejection: the response record is in the store.
C25_Witness ==
  /\ lastCall.op = "_processTextMessage"
  /\ lastCall.stage = "downsell"
  /\ lastCall.analysed
  /\ lastCall.confidence = 90
  /\ lastCall.recorded
  /\ lastCall.afterAnalysis # lastCall.afterStage
  /\ \E i \in 1..Len(store) : store[i].key = <<"downsell_response", now>>

\* The stages named by the stage directives of a reply: the ids of its
\* "etapa" commands that are stages of the enum.
DirectedStages(reply) ==
  LET commands == ExtractSpecialCommands(reply)
  IN  {StageNamed(commands[n].id) :
         n \in {k \in 1..Len(commands) :
                  /\ commands[k].type = <<"e", "t", "a", "p", "a">>
                  /\ StageNamed(commands[k].id) \in FUNNEL_STAGES}}

\* The text holds a directive.
HasCommand(text) == \E i \in 1..Len(text) : CommandEnd(text, i) > 0

\* C27: when the reply of the model holds a stage directive that names a
\* valid stage other than the current one, the turn requests
\* updateFunnelStage for that stage, and no directive is in the text queued
\* for the user.
C27_StageDirectiveForcesStage ==
  (/\ lastCall.op = "_processTextMessage"
   /\ lastCall.aiResponse.ok
   /\ ~lastCall.fallback) =>
    \A stage \in DirectedStages(lastCall.aiResponse.content) \ {lastCall.stage} :
       /\ lastCall.suggestedStage = stage
       /\ \A n \in 1..Len(lastCall.queued) : ~HasCommand(lastCall.queued[n])

(***************************************************************************)
(* _sendToOpenAI (aiHandler.js 350-425; _sendToLocalModel, 433-514, is the *)
(* same loop).  While the call runs, lastCall is its frame: pc, attempts,  *)
(* delay, the error caught last, the requests made so far and the wait in  *)
(* progress.  Delays are in milliseconds.                                  *)
(***************************************************************************)
MaxRetries == 2

\* botConfig.openai.retryConfig (part_004 240-254), each value read from
\* the environment and clamped by parseIntEnv: maxRetries in 0..10 (3 when
\* unset), initialDelayMs in 100..10000 (1000), maxDelayMs in 1000..60000
\* (15000).  The ends and the defaults of the delays are taken.
RetryConfigs ==
  {[maxRetries |-> m, initialDelayMs |-> i, maxDelayMs |-> d] :
     m \in 0..MaxRetries, i \in {100, 1000, 10000}, d \in {1000, 15000, 60000}}

\* Errors a request ends with: an axios error with its code and the status
\* of its response (0: no response), or another error; message holds the
\* words of line 749-753 that the text of the error contains.
RequestErrors ==
  {[isAxiosError |-> TRUE, code |-> "ECONNABORTED", status |-> 0, message |-> {"timeout"}],
   [isAxiosError |-> TRUE, code |-> "ERR_BAD_RESPONSE", status |-> 503, message |-> {}],
   [isAxiosError |-> TRUE, code |-> "ERR_BAD_REQUEST", status |-> 429, message |-> {}],
   [isAxiosError |-> TRUE, code |-> "ERR_BAD_REQUEST", status |-> 400, message |-> {}],
   [isAxiosError |-> TRUE, code |-> "ERR_BAD_REQUEST", status |-> 401, message |-> {}],
   [isAxiosError |-> TRUE, code |-> "ERR_BAD_REQUEST", status |-> 404, message |-> {}],
   [isAxiosError |-> FALSE, code |-> "", status |-> 0, message |-> {}]}

\* _isRetryableError (aiHandler.js 709-759)
IsRetryableError(error) ==
  IF error.isAxiosError /\ error.code = "ECONNABORTED" THEN TRUE
  ELSE IF error.isAxiosError
          /\ (error.status = 0 \/ (error.status >= 500 /\ error.status < 600))
  THEN TRUE
  ELSE IF error.isAxiosError /\ error.status = 429 THEN TRUE
  ELSE IF error.isAxiosError /\ error.status >= 400 /\ error.status < 500
  THEN error.status \notin {400, 401}
  ELSE error.message \cap {"timeout", "rate limit", "overloaded", "internal error",
                           "service unavailable"} # {}

\* 2 * (0.8 + 0.4 * Math.random()), in tenths: from 1.6 to below 2.4
Jitters == {16, 20, 23}

NoError == [isAxiosError |-> FALSE, code |-> "none", status |-> 0, message |-> {}]

InvalidResponse ==
  [isAxiosError |-> FALSE, code |-> "", status |-> 0,
   message |-> {"Invalid response from OpenAI"}]

\* The call is in progress.
Sending == lastCall.op = "_sendToOpenAI" /\ lastCall.pc \in {"request", "waiting"}

\* _sendToOpenAI is called (350-356): no attempt yet, the first request is
\* sent when maxRetries is not negative.
SendToOpenAI(retryConfig) ==
  /\ ~Sending
  /\ lastCall' = [op |-> "_sendToOpenAI", arg |-> retryConfig, pc |-> "request",
                  attempts |-> 0, delay |-> retryConfig.initialDelayMs,
                  requests |-> 1, wait |-> 0, error |-> NoError,
                  result |-> "none", failedReads |-> {}]
  /\ UNCHANGED <<store, now, calls>>
  /\ UNCHANGED <<chatVars, histVars, splitVars, cacheVars, typingVars>>

\* The request is answered (364-380 and 414-424): with a completion, whose
\* message is returned, or with a body without choices, which is an error
\* raised at once.
RequestAnswered(valid) ==
  /\ Sending /\ lastCall.pc = "request"
  /\ lastCall' = IF valid
                 THEN [lastCall EXCEPT !.pc = "returned", !.result = "message"]
                 ELSE [lastCall EXCEPT !.pc = "thrown", !.result = "error",
                                       !.error = InvalidResponse]
  /\ UNCHANGED <<store, now, calls>>
  /\ UNCHANGED <<chatVars, histVars, splitVars, cacheVars, typingVars>>

\* The request throws (381-411): the attempt is counted; the call waits
\* for the delay when attempts remain and the error is retryable, and
\* rethrows the error otherwise.
RequestFailed(error) ==
  /\ Sending /\ lastCall.pc = "request"
  /\ LET attempts == lastCall.attempts + 1
         shouldRetry == attempts <= lastCall.arg.maxRetries /\ IsRetryableError(error)
     IN  lastCall' = IF shouldRetry
                     THEN [lastCall EXCEPT !.pc = "waiting", !.attempts = attempts,
                                           !.error = error, !.wait = lastCall.delay]
                     ELSE [lastCall EXCEPT !.pc = "thrown", !.attempts = attempts,
                                           !.error = error, !.result = "error"]
  /\ UNCHANGED <<store, now, calls>>
  /\ UNCHANGED <<chatVars, histVars, splitVars, cacheVars, typingVars>>

\* The timer of the wait fires (396-402): the delay is doubled with jitter
\* and capped, and the loop sends the next request (356).
WaitDone(jitter) ==
  /\ Sending /\ lastCall.pc = "waiting"
  /\ lastCall' = [lastCall EXCEPT
                    !.pc = "request",
                    !.requests = lastCall.requests + 1,
                    !.delay = Min({(lastCall.delay * jitter) \div 10,
                                   lastCall.arg.maxDelayMs})]
  /\ UNCHANGED <<store, now, calls>>
  /\ UNCHANGED <<chatVars, histVars, splitVars, cacheVars, typingVars>>

NextRetry ==
  \/ \E retryConfig \in RetryConfigs : SendToOpenAI(retryConfig)
  \/ \E valid \in BOOLEAN : RequestAnswered(valid)
  \/ \E error \in RequestErrors : RequestFailed(error)
  \/ \E jitter \in Jitters : WaitDone(jitter)

\* The request and the timer of a wait come to an end: the request has a
\* timeout of 60 s (375) and the wait is a setTimeout (396).
SpecRetry == Init /\ [][NextRetry]_vars /\ WF_vars(NextRetry)

\* The statuses and codes the specification calls retryable and fatal.
IsTransient(error) ==
  error.isAxiosError /\ (error.code = "ECONNABORTED" \/ error.status \in {429, 503})

IsFatal(error) == error.isAxiosError /\ error.status \in {400, 401}

\* What holds of a model call in every state.
RetryDiscipline ==
  lastCall.op = "_sendToOpenAI" =>
    /\ lastCall.requests <= lastCall.arg.maxRetries + 1
    /\ lastCall.pc = "waiting" =>
          /\ ~IsFatal(lastCall.error)
          /\ lastCall.attempts <= lastCall.arg.maxRetries
          /\ lastCall.wait <= lastCall.arg.maxDelayMs
    /\ (lastCall.pc = "thrown" /\ lastCall.error # InvalidResponse) =>
          /\ lastCall.attempts = lastCall.requests
          /\ IsTransient(lastCall.error) =>
                lastCall.attempts = lastCall.arg.maxRetries + 1
          /\ lastCall.result = "error"

\* C28: a model call makes at most maxRetries + 1 attempts and comes to an
\* end; a retryable failure is retried while attempts remain, a fatal one
\* is not retried, the error of the last attempt is raised when the
\* attempts are used up, and no wait is longer than the maximum delay.
C28_BoundedRetries ==
  /\ []RetryDiscipline
  /\ (Sending ~> ~Sending)

(***************************************************************************)
(* The run with its turns carried out on the store: _processChatMessages   *)
(* (chatHandler.js 201-242) calling _processTextMessage (304-349).  The    *)
(* message settings are configuration, fixed when the process starts.      *)
(***************************************************************************)
InitRun ==
  /\ ChatInit /\ HistInit /\ StoreIdle /\ CacheIdle
  /\ content = <<>> /\ chunks = <<>> /\ called = FALSE
  /\ \E messageSettings \in MessageSettings :
        /\ maxLength = messageSettings.maxCharsPerMessage
        /\ splitInParagraphs = messageSettings.splitInParagraphs

\* Outcomes of the model call of a turn: a plain reply, a reply with a
\* phrase of the closing stage, and a call that failed for good.
RunResponses ==
  {[ok |-> TRUE, content |-> <<"o", "k">>],
   [ok |-> TRUE,
    content |-> <<"p", "o", "d", "e", "m", "o", "s", " ", "s", "e", "g", "u", "i", "r", " ", "c", "o", "m">>],
   ModelFailure}

\* The combined text of a turn (chatHandler.js 223).
RunTexts == {<<"s", "i", "m">>}

\* One iteration of the loop of _processChatMessages from the call of
\* _processTextMessage to the sleep of line 240 (chatHandler.js 222-240):
\* the turn is carried out, the chunks of its reply are queued, and the
\* function returns whether or not the model call, the stage update or the
\* delivery failed (every error is caught at 335 or in _sendResponse).
ProcessChatMessagesTurn(r, aiResponse, failAt, delivered) ==
  /\ procs[r].pc = "ai"
  /\ \E text \in RunTexts, chatState \in TurnChatStates :
        TextMessageTurn(text, chatState, aiResponse, failAt, delivered,
                        [maxCharsPerMessage |-> maxLength,
                         splitInParagraphs |-> splitInParagraphs])
  /\ procs' = [procs EXCEPT ![r].pc = "sleep"]
  /\ IF lastCall'.queued = <<>>
     THEN UNCHANGED <<messageQueues, hasQueue, senders, batches>>
     ELSE QueueMessages(Len(lastCall'.queued))
  /\ failed' = IF ~aiResponse.ok \/ lastCall'.updateFailed \/ ~delivered
               THEN failed \cup {turns} ELSE failed
  /\ pendingAtFailure' = IF ~aiResponse.ok \/ lastCall'.updateFailed \/ ~delivered
                         THEN pendingAtFailure \cup Waiting
                         ELSE pendingAtFailure
  /\ UNCHANGED <<incomingMessages, timeout, processingChats, lastSent, reordered>>
  /\ UNCHANGED <<sinceLast, gapOf, frag, merged, flushes, turns, actions>>
  /\ UNCHANGED <<calls, splitVars, cacheVars, typingVars>>

\* A step of a run.
TurnStep ==
  \E r \in 1..Len(procs) :
     \/ GetChatStateDone(r)
     \/ \E aiResponse \in RunResponses, failAt \in 0..MaxWrites, delivered \in BOOLEAN :
           ProcessChatMessagesTurn(r, aiResponse, failAt, delivered)
     \/ SleepDone(r)

NextRun ==
  \/ (Len(gapOf) < LiveFragments /\ AddToMessageGroup)
  \/ Tick
  \/ ProcessMessageGroup
  \/ TurnStep

\* The awaits of a run complete, as in SpecBatcherLive.
SpecRun == InitRun /\ [][NextRun]_vars /\ WF_vars(TurnStep)

\* The last turn is one whose model call failed for good or whose stage
\* update failed.
FailedTurn ==
  /\ lastCall.op = "_processTextMessage"
  /\ ~lastCall.aiResponse.ok \/ lastCall.updateFailed

\* Chunks queued for the user so far and not yet sent.
QueuedChunks == Len(messageQueues) + Cardinality(senders)

\* C29: a turn whose model call fails for good, or whose stage update
\* fails, queues exactly one message for the user, the fixed apology, and
\* no other reply text; the run goes on: the fragments that were waiting
\* are taken in a later turn and the conversation leaves Processing.
C29_FailedTurnQueuesOneApology ==
  /\ []((FailedTurn /\ lastCall.delivered) => lastCall.queued = <<Apology>>)
  /\ [][(lastCall' # lastCall /\ FailedTurn' /\ lastCall'.delivered)
          => QueuedChunks' = QueuedChunks + 1]_vars
  /\ ((FailedTurn /\ processingChats # 0) ~> (processingChats = 0))
  /\ \A f \in Fragments : (f \in pendingAtFailure) ~> (frag[f].turn # 0)

(***************************************************************************)
(* MemoryManager with its cache over the tables (src/memoryManager.js).    *)
(* prisma.message and prisma.memoryEntry hold the rows of the conversation *)
(* in the order of their creation; createdAt and updatedAt are the value   *)
(* of prisma.clock at the write, so no two writes have the same time.      *)
(* cache.messages and cache.memoryEntries are <<>> when the map has no     *)
(* entry for the conversation and <<array>> when it has one.               *)
(***************************************************************************)
MaxOps == 3           \* writes to the tables in one behaviour

\* The roles addMessage accepts (memoryManager.js 149-153)
Roles == {"user", "assistant", "system"}

\* options of getMessages (memoryManager.js 186): a limit below and one
\* above the number of messages of a behaviour, role ("none": not given)
\* and includeSystem.
MessageOptions ==
  {[limit |-> l, role |-> r, includeSystem |-> i] :
     l \in {2, 30}, r \in {"none", "user"}, i \in BOOLEAN}

\* Entries saved: two keys of one type.
CachedEntries ==
  {[key |-> "current_stage", type |-> "funnel_stage", value |-> "greeting"],
   [key |-> "current_stage", type |-> "funnel_stage", value |-> "closing"],
   [key |-> "previous_stage", type |-> "funnel_stage", value |-> "greeting"]}

RECURSIVE SortBy(_, _)
\* Array.prototype.sort with a comparator on the time field named by
\* later (the sort is stable): ascending when later is FALSE, descending when TRUE.
SortBy(rows, later) ==
  IF rows = <<>> THEN <<>>
  ELSE LET first == CHOOSE i \in 1..Len(rows) :
                      /\ \A j \in 1..Len(rows) :
                            IF later THEN rows[j].time <= rows[i].time
                            ELSE rows[i].time <= rows[j].time
                      /\ \A j \in 1..(i - 1) : rows[j].time # rows[i].time
       IN  <<rows[first]>>
           \o SortBy(SubSeq(rows, 1, first - 1) \o SubSeq(rows, first + 1, Len(rows)),
                     later)

\* The branch of getMessages served from the cache (memoryManager.js
\* 195-222): filter by role, drop system messages, sort by createdAt and
\* keep the last `limit` messages.
FilterCachedMessages(cachedMessages, options) ==
  LET byRole == IF options.role # "none"
                THEN SelectSeq(cachedMessages, LAMBDA m : m.role = options.role)
                ELSE cachedMessages
      noSystem == IF ~options.includeSystem
                  THEN SelectSeq(byRole, LAMBDA m : m.role # "system")
                  ELSE byRole
      sorted == SortBy(noSystem, FALSE)
  IN  IF Len(sorted) > options.limit
      THEN SubSeq(sorted, Len(sorted) - options.limit + 1, Len(sorted))
      ELSE sorted

\* The query of getMessages (memoryManager.js 224-244): whereClause.role is
\* set to the role when one is given and then set to { not: "system" }
\* when includeSystem is false; the first `limit` rows in the order of
\* createdAt are taken.
FindManyMessages(rows, options) ==
  LET matching ==
        IF ~options.includeSystem
        THEN SelectSeq(rows, LAMBDA m : m.role # "system")
        ELSE IF options.role # "none"
        THEN SelectSeq(rows, LAMBDA m : m.role = options.role)
        ELSE rows
      ordered == SortBy(matching, FALSE)
  IN  SubSeq(ordered, 1, IF Len(ordered) > options.limit THEN options.limit
                         ELSE Len(ordered))

\* prisma.memoryEntry.findFirst with the type, ordered by updatedAt
\* descending (memoryManager.js 398-406); null when there is no row.
FindFirstMemoryEntry(rows, type) ==
  LET matching == SortBy(SelectSeq(rows, LAMBDA e : e.type = type), TRUE)
  IN  IF matching = <<>> THEN null ELSE matching[1]

\* _updateMemoryEntryCache (memoryManager.js 852-873)
UpdateMemoryEntryCache(cachedEntries, entry) ==
  LET entries == IF cachedEntries = <<>> THEN <<>> ELSE cachedEntries[1]
  IN  <<Append(SelectSeq(entries,
                         LAMBDA e : ~(e.key = entry.key /\ e.type = entry.type)),
               entry)>>

\* addMessage (memoryManager.js 139-173): the row is created and pushed on
\* the cached array, which is created empty when the map has none
\* (_updateMessageCache, 817-830).
AddMessage(role) ==
  /\ prisma.clock < MaxOps
  /\ LET message == [id |-> prisma.clock + 1, role |-> role, time |-> prisma.clock + 1]
     IN  /\ prisma' = [prisma EXCEPT !.message = Append(@, message),
                                     !.clock = @ + 1]
         /\ cache' = [cache EXCEPT !.messages =
                         <<(IF @ = <<>> THEN <<>> ELSE @[1]) \o <<message>>>>]
         /\ lastCall' = [op |-> "addMessage", arg |-> role, result |-> message,
                         failedReads |-> {}]
  /\ UNCHANGED <<store, now, calls>>
  /\ UNCHANGED <<chatVars, histVars, splitVars, typingVars>>

\* getMessages (memoryManager.js 184-254): from the cached array when the
\* map has one, else from the table, and the rows found become the cached
\* array (_setMessagesCache, 838-844).
GetMessages(options) ==
  /\ IF cache.messages # <<>>
     THEN /\ lastCall' = [op |-> "getMessages", arg |-> options,
                          result |-> FilterCachedMessages(cache.messages[1], options),
                          cached |-> TRUE, failedReads |-> {}]
          /\ UNCHANGED cache
     ELSE /\ lastCall' = [op |-> "getMessages", arg |-> options,
                          result |-> FindManyMessages(prisma.message, options),
                          cached |-> FALSE, failedReads |-> {}]
          /\ cache' = [cache EXCEPT !.messages =
                          <<FindManyMessages(prisma.message, options)>>]
  /\ UNCHANGED <<store, now, calls, prisma>>
  /\ UNCHANGED <<chatVars, histVars, splitVars, typingVars>>

\* saveMemoryEntry (memoryManager.js 264-314): the row with the key and
\* type is updated or created, and the cached array is updated.
SaveMemoryEntryCall(entry) ==
  /\ prisma.clock < MaxOps
  /\ LET row == [key |-> entry.key, type |-> entry.type, value |-> entry.value,
                 time |-> prisma.clock + 1]
         existing == {i \in 1..Len(prisma.memoryEntry) :
                        /\ prisma.memoryEntry[i].key = entry.key
                        /\ prisma.memoryEntry[i].type = entry.type}
     IN  /\ prisma' = [prisma EXCEPT
                         !.memoryEntry = IF existing = {} THEN Append(@, row)
                                         ELSE [@ EXCEPT ![Min(existing)] = row],
                         !.clock = @ + 1]
         /\ cache' = [cache EXCEPT !.memoryEntries = UpdateMemoryEntryCache(@, row)]
         /\ lastCall' = [op |-> "saveMemoryEntry", arg |-> entry, result |-> row,
                         failedReads |-> {}]
  /\ UNCHANGED <<store, now, calls>>
  /\ UNCHANGED <<chatVars, histVars, splitVars, typingVars>>

\* getLatestMemoryEntry (memoryManager.js 373-423): the cached entry of the
\* type with the latest updatedAt when the cached array has one of the
\* type, else the row found in the table, which is then cached.
GetLatestMemoryEntryCall(type) ==
  LET matchingEntries ==
        IF cache.memoryEntries = <<>> THEN <<>>
        ELSE SortBy(SelectSeq(cache.memoryEntries[1], LAMBDA e : e.type = type), TRUE)
      entry == FindFirstMemoryEntry(prisma.memoryEntry, type)
  IN  /\ IF matchingEntries # <<>>
         THEN /\ lastCall' = [op |-> "getLatestMemoryEntry", arg |-> type,
                              result |-> matchingEntries[1], cached |-> TRUE,
                              failedReads |-> {}]
              /\ UNCHANGED cache
         ELSE /\ lastCall' = [op |-> "getLatestMemoryEntry", arg |-> type,
                              result |-> entry, cached |-> FALSE,
                              failedReads |-> {}]
              /\ cache' = IF entry # null
                          THEN [cache EXCEPT !.memoryEntries =
                                  UpdateMemoryEntryCache(@, entry)]
                          ELSE cache
      /\ UNCHANGED <<store, now, calls, prisma>>
      /\ UNCHANGED <<chatVars, histVars, splitVars, typingVars>>

\* deleteMemoryEntry (memoryManager.js 485-515): the rows with the key and
\* type are deleted from the table and from the cached array.
DeleteMemoryEntry(key, type) ==
  /\ prisma.clock < MaxOps
  /\ prisma' = [prisma EXCEPT
                  !.memoryEntry = SelectSeq(@, LAMBDA e : ~(e.key = key /\ e.type = type)),
                  !.clock = @ + 1]
  /\ cache' = [cache EXCEPT !.memoryEntries =
                  IF @ = <<>> THEN <<>>
                  ELSE <<SelectSeq(@[1], LAMBDA e : ~(e.key = key /\ e.type = type))>>]
  /\ lastCall' = [op |-> "deleteMemoryEntry", arg |-> <<key, type>>,
                  result |-> TRUE, failedReads |-> {}]
  /\ UNCHANGED <<store, now, calls>>
  /\ UNCHANGED <<chatVars, histVars, splitVars, typingVars>>

\* cleanupCache (memoryManager.js 61-82) when the conversation was last
\* accessed more than cacheTTL ago: its arrays are removed from the maps.
CleanupCache ==
  /\ cache # [messages |-> <<>>, memoryEntries |-> <<>>]
  /\ cache' = [messages |-> <<>>, memoryEntries |-> <<>>]
  /\ lastCall' = [op |-> "cleanupCache", arg |-> "none", result |-> "none",
                  failedReads |-> {}]
  /\ UNCHANGED <<store, now, calls, prisma>>
  /\ UNCHANGED <<chatVars, histVars, splitVars, typingVars>>

NextCache ==
  \/ \E role \in Roles : AddMessage(role)
  \/ \E options \in MessageOptions : GetMessages(options)
  \/ \E entry \in CachedEntries : SaveMemoryEntryCall(entry)
  \/ \E entry \in CachedEntries : GetLatestMemoryEntryCall(entry.type)
  \/ \E entry \in CachedEntries : DeleteMemoryEntry(entry.key, entry.type)
  \/ CleanupCache

SpecCache == Init /\ [][NextCache]_vars

\* C30: the caches are safe to drop: what getMessages and
\* getLatestMemoryEntry return, from the cache or not, is what they return
\* from the tables when the cache is empty: the same messages for the same
\* limit and role filter, the same latest entry for the same type.
C30_CacheSafeToDrop ==
  /\ lastCall.op = "getMessages" =>
        lastCall.result = FindManyMessages(prisma.message, lastCall.arg)
  /\ lastCall.op = "getLatestMemoryEntry" =>
        lastCall.result = FindFirstMemoryEntry(prisma.memoryEntry, lastCall.arg)

(***************************************************************************)
(* The stage derived from the conversation (part_000 394-479).  A message  *)
(* of chatState.messages is the record of its role and its content.        *)
(***************************************************************************)
\* part_000 418-426
pricingSignals ==
  << <<"p", "r", "e", "c,", "o">>,
     <<"v", "a", "l", "o", "r">>,
     <<"i", "n", "v", "e", "s", "t", "i", "m", "e", "n", "t", "o">>,
     <<"c", "u", "s", "t", "o">>,
     <<"p", "l", "a", "n", "o">>,
     <<"p", "a", "c", "o", "t", "e">>,
     <<"q", "u", "a", "n", "t", "o", " ", "c", "u", "s", "t", "a">> >>

\* part_000 432-439
closingSignals ==
  << <<"c", "o", "m", "p", "r", "a", "r">>,
     <<"a", "d", "q", "u", "i", "r", "i", "r">>,
     <<"a", "s", "s", "i", "n", "a", "r">>,
     <<"c", "o", "n", "t", "r", "a", "t", "a", "r">>,
     <<"f", "e", "c", "h", "a", "r">>,
     <<"p", "a", "g", "a", "m", "e", "n", "t", "o">> >>

\* part_000 445-451
demoSignals ==
  << <<"f", "u", "n", "c", "i", "o", "n", "a">>,
     <<"e", "x", "e", "m", "p", "l", "o">>,
     <<"d", "e", "m", "o", "n", "s", "t", "r", "a", "c,", "a~", "o">>,
     <<"m", "o", "s", "t", "r", "a", "r">>,
     <<"v", "e", "r", " ", "c", "o", "m", "o">> >>

\* Object.values(OBJECTION_STRATEGIES).flatMap(obj => obj.detection)
\* (part_000 52-185 and 457-459)
objectionSignals ==
  << <<"c", "a", "r", "o">>,
     <<"p", "r", "e", "c,", "o">>,
     <<"c", "u", "s", "t", "o">>,
     <<"v", "a", "l", "o", "r">>,
     <<"b", "a", "r", "a", "t", "o">>,
     <<"d", "e", "s", "c", "o", "n", "t", "o">>,
     <<"p", "r", "o", "m", "o", "c,", "a~", "o">>,
     <<"i", "n", "v", "e", "s", "t", "i", "m", "e", "n", "t", "o">>,
     <<"o", "r", "c,", "a", "m", "e", "n", "t", "o">>,
     <<"t", "e", "m", "p", "o">>,
     <<"p", "e", "n", "s", "a", "r">>,
     <<"d", "e", "p", "o", "i", "s">>,
     <<"c", "o", "n", "s", "u", "l", "t", "a", "r">>,
     <<"d", "e", "c", "i", "d", "i", "r">>,
     <<"a", "m", "a", "n", "h", "a~">>,
     <<"s", "e", "m", "a", "n", "a">>,
     <<"r", "e", "f", "l", "e", "x", "a~", "o">>,
     <<"a", "n", "a", "l", "i", "s", "a", "r">>,
     <<"c", "o", "n", "s", "u", "l", "t", "a", "r">>,
     <<"c", "h", "e", "f", "e">>,
     <<"s", "o'", "c", "i", "o">>,
     <<"e", "s", "p", "o", "s", "a">>,
     <<"m", "a", "r", "i", "d", "o">>,
     <<"e", "q", "u", "i", "p", "e">>,
     <<"d", "e", "c", "i", "d", "i", "r", " ", "j", "u", "n", "t", "o">>,
     <<"g", "e", "r", "e", "n", "t", "e">>,
     <<"s", "u", "p", "e", "r", "i", "o", "r">>,
     <<"d", "i", "r", "e", "t", "o", "r">>,
     <<"c", "o", "n", "c", "o", "r", "r", "e", "n", "t", "e">>,
     <<"o", "u", "t", "r", "a", " ", "e", "m", "p", "r", "e", "s", "a">>,
     <<"o", "u", "t", "r", "o", " ", "s", "i", "s", "t", "e", "m", "a">>,
     <<"a", "l", "t", "e", "r", "n", "a", "t", "i", "v", "a">>,
     <<"c", "o", "m", "p", "a", "r", "a", "n", "d", "o">>,
     <<"d", "i", "f", "e", "r", "e", "n", "t", "e">>,
     <<"s", "i", "m", "i", "l", "a", "r">>,
     <<"s", "e", "r", "v", "i", "c,", "o", " ", "p", "a", "r", "e", "c", "i", "d", "o">>,
     <<"n", "a~", "o", " ", "p", "r", "e", "c", "i", "s", "o">>,
     <<"d", "e", "s", "n", "e", "c", "e", "s", "s", "a'", "r", "i", "o">>,
     <<"r", "e", "s", "o", "l", "v", "i", "d", "o">>,
     <<"s", "a", "t", "i", "s", "f", "e", "i", "t", "o">>,
     <<"n", "a~", "o", " ", "t", "e", "n", "h", "o", " ", "p", "r", "o", "b", "l", "e", "m", "a">>,
     <<"s", "e", "m", " ", "i", "n", "t", "e", "r", "e", "s", "s", "e">>,
     <<"n", "a~", "o", " ", "e'", " ", "p", "r", "i", "o", "r", "i", "d", "a", "d", "e">>,
     <<"c", "o", "m", "p", "l", "i", "c", "a", "d", "o">>,
     <<"d", "i", "f", "i'", "c", "i", "l">>,
     <<"t", "e'", "c", "n", "i", "c", "o">>,
     <<"c", "o", "m", "p", "l", "e", "x", "o">>,
     <<"i", "m", "p", "l", "e", "m", "e", "n", "t", "a", "c,", "a~", "o">>,
     <<"i", "n", "t", "e", "g", "r", "a", "c,", "a~", "o">>,
     <<"i", "n", "s", "t", "a", "l", "a", "r">>,
     <<"c", "o", "n", "f", "i", "g", "u", "r", "a", "r">>,
     <<"a", "p", "r", "e", "n", "d", "e", "r">> >>

\* chatState.messages.slice(-5) (part_000 409)
RecentMessages(messages) ==
  SubSeq(messages, Max({1, Len(messages) - 4}), Len(messages))

\* The contents in lower case of the user messages among the recent ones
\* (part_000 410-412).
UserMessagesOf(recentMessages) ==
  {ToLowerCase(recentMessages[i].content) :
     i \in {j \in 1..Len(recentMessages) : recentMessages[j].role = "user"}}

\* userMessages.some(msg => signals.some(signal => msg.includes(signal)))
SomeIncludes(userMessages, signals) ==
  \E msg \in userMessages : \E k \in 1..Len(signals) : Includes(msg, signals[k])

\* What determineCurrentStage reads of chatState (part_000 395 and
\* 409-462): the number of messages and, from 10 messages on, the keyword
\* families found.
ChatStateOf(messages) ==
  [messageCount |-> Len(messages),
   signals |->
     IF Len(messages) < 10 THEN {}
     ELSE {family \in {"closing", "pricing", "objection", "demo"} :
             SomeIncludes(UserMessagesOf(RecentMessages(messages)),
                          CASE family = "closing" -> closingSignals
                            [] family = "pricing" -> pricingSignals
                            [] family = "objection" -> objectionSignals
                            [] family = "demo" -> demoSignals)}]

\* Messages of the conversations: of the user without a keyword and with
\* a keyword of each family, and of the assistant without and with one.
UserPlain == [role |-> "user", content |-> <<"B", "o", "m", " ", "d", "i", "a">>]

UserClosing == [role |-> "user", content |-> <<"Q", "u", "e", "r", "o", " ", "C", "O", "M", "P", "R", "A", "R", " ", "h", "o", "j", "e">>]

UserPricing == [role |-> "user", content |-> <<"q", "u", "a", "n", "t", "o", " ", "c", "u", "s", "t", "a", "?">>]

UserObjection == [role |-> "user", content |-> <<"p", "r", "e", "c", "i", "s", "o", " ", "p", "e", "n", "s", "a", "r">>]

UserDemo == [role |-> "user", content |-> <<"C", "o", "m", "o", " ", "f", "u", "n", "c", "i", "o", "n", "a", "?">>]

AssistantPlain == [role |-> "assistant", content |-> <<"C", "e", "r", "t", "o">>]

AssistantClosing == [role |-> "assistant", content |-> <<"P", "o", "s", "s", "o", " ", "e", "n", "v", "i", "a", "r", " ", "o", " ", "l", "i", "n", "k", " ", "d", "e", " ", "p", "a", "g", "a", "m", "e", "n", "t", "o">>]

\* Message counts at and on both sides of the thresholds (part_000 401-478).
MessageCounts == {0, 1, 4, 5, 9, 10, 14, 15, 19, 20}

\* The messages before the last six: the user and the assistant in turn,
\* without keywords.
Filler(n) == [i \in 1..n |-> IF i % 2 = 1 THEN UserPlain ELSE AssistantPlain]

\* The last six messages of a conversation: four of the user, two of the
\* assistant.
Tails ==
  {<<m6, m5, AssistantPlain, m3, a2, m1>> :
     m6 \in {UserPlain, UserClosing},
     m5 \in {UserPlain, UserClosing, UserPricing, UserObjection, UserDemo},
     m3 \in {UserPlain, UserClosing, UserPricing, UserObjection, UserDemo},
     a2 \in {AssistantPlain, AssistantClosing},
     m1 \in {UserPlain, UserClosing, UserPricing, UserObjection, UserDemo}}

\* Conversations of these lengths that end with these messages.
Conversations ==
  {IF n >= 6 THEN Filler(n - 6) \o tail ELSE SubSeq(tail, 7 - n, 6) :
     n \in MessageCounts, tail \in Tails}

\* A stage persisted for the conversation.
PersistedClosing ==
  <<[key |-> <<"current_stage">>, type |-> "funnel_stage", value |-> Str("closing")]>>

\* The conversation is new, has a persisted stage, or has a purchase of
\* which the stage is resolved on the day or a week later.
InitStage ==
  /\ ChatInit /\ HistInit /\ CacheIdle
  /\ content \in Conversations
  /\ maxLength = 0 /\ splitInParagraphs = FALSE /\ chunks = <<>> /\ called = FALSE
  /\ store \in {<<>>, PersistedClosing, PurchaseHistory}
  /\ now \in {0, 7 * Day}
  /\ store = PurchaseHistory \/ now = 0
  /\ calls = 0
  /\ lastCall = NoCall

\* determineCurrentStage (part_000 298-498) for the chat state whose
\* messages are the conversation.
DetermineStageOfConversation ==
  /\ ~called
  /\ called' = TRUE
  /\ \E outcome \in {DetermineOutcome(store, ChatStateOf(content), {})} :
       /\ store' = SaveAll(store, outcome.writes, Len(outcome.writes))
       /\ lastCall' = [op |-> "determineCurrentStage", arg |-> content,
                       result |-> outcome.returned, before |-> store,
                       failedReads |-> {}, writeFailed |-> FALSE]
  /\ calls' = calls + 1
  /\ UNCHANGED <<now, content, maxLength, splitInParagraphs, chunks>>
  /\ UNCHANGED <<chatVars, histVars, cacheVars, typingVars>>

NextStage == DetermineStageOfConversation

SpecStage == InitStage /\ [][NextStage]_vars

\* A message of the list contains a keyword of the family.
HasKeyword(messageList, signals) ==
  \E i \in 1..Len(messageList) : \E k \in 1..Len(signals) :
     Includes(ToLowerCase(messageList[i].content), signals[k])

\* The last n elements of a list.
LastOf(list, n) == SubSeq(list, Max({1, Len(list) - n + 1}), Len(list))

\* The user messages of a list.
OfUser(messageList) == SelectSeq(messageList, LAMBDA m : m.role = "user")

\* The stage by the number of messages and the messages scanned.
StageFor(messageCount, scanned) ==
  IF messageCount = 0 THEN "greeting"
  ELSE IF messageCount \in 1..4 THEN "qualification"
  ELSE IF messageCount \in 5..9 THEN "need_discovery"
  ELSE IF HasKeyword(scanned, closingSignals) THEN "closing"
  ELSE IF HasKeyword(scanned, pricingSignals) THEN "price_discussion"
  ELSE IF HasKeyword(scanned, objectionSignals) THEN "objection_handling"
  ELSE IF HasKeyword(scanned, demoSignals) THEN "product_demonstration"
  ELSE IF messageCount < 15 THEN "pain_point_exploration"
  ELSE IF messageCount < 20 THEN "solution_presentation"
  ELSE "value_proposition"

\* determineCurrentStage was called for a conversation without a persisted
\* stage and found neither an upsell nor a downsell.
DerivedFromMessages ==
  /\ lastCall.op = "determineCurrentStage"
  /\ "before" \in DOMAIN lastCall
  /\ ~HasValue(GetLatestMemoryEntry(lastCall.before, "funnel_stage", FALSE))
  /\ lastCall.result \notin {"upsell", "downsell"}

\* C31 as stated: with no persisted stage and no upsell or downsell match
\* the stage is greeting for 0 messages, qualification for 1 to 4,
\* need_discovery for 5 to 9, and from 10 on the first of closing,
\* price_discussion, objection_handling, product_demonstration whose
\* keywords occur in the last 5 user messages, else pain_point_exploration
\* below 15 messages, solution_presentation below 20, value_proposition
\* otherwise.
C31_Original ==
  DerivedFromMessages =>
    lastCall.result = StageFor(Len(lastCall.arg), LastOf(OfUser(lastCall.arg), 5))

\* C31 (amended): the same, the messages scanned being the user messages
\* among the last 5 messages of the conversation.
C31_StageByCountAndKeywords ==
  DerivedFromMessages =>
    lastCall.result = StageFor(Len(lastCall.arg), OfUser(LastOf(lastCall.arg, 5)))

\* A conversation of 10 messages or more whose last five messages have a
\* pricing and a closing keyword of the user: closing was returned.
C31_Witness ==
  /\ DerivedFromMessages
  /\ Len(lastCall.arg) >= 10
  /\ HasKeyword(OfUser(LastOf(lastCall.arg, 5)), pricingSignals)
  /\ HasKeyword(OfUser(LastOf(lastCall.arg, 5)), closingSignals)
  /\ lastCall.result = "closing"

(***************************************************************************)
(* The downsell after a rejected upsell (part_000 358-390): the stage of a *)
(* conversation with a purchase and a rejection is resolved as the half    *)
(* hours go by.                                                            *)
(***************************************************************************)
MaxHalfHours == 50    \* half hours that pass in one behaviour

\* The rejection of an upsell to the plan, made at time 0, as an entry of
\* the type determineCurrentStage reads (part_000 359-362).
RejectionOf(plan) ==
  <<[key |-> <<"rejected_upsell">>, type |-> "rejected_upsell",
     value |-> [target_plan_id |-> plan, rejection_time |-> 0]]>>

\* A purchase alone, and with the rejection of an upsell to a plan that has
\* a downsell and to one that has none.
RejectionImports ==
  {PurchaseHistory} \cup
  {PurchaseHistory \o RejectionOf(plan) :
     plan \in {"pro_plan", "enterprise_plan", "basic_plan"}}

\* Half an hour goes by.
HalfHourPasses ==
  /\ now < MaxHalfHours
  /\ now' = now + 1
  /\ UNCHANGED <<store, calls, lastCall>>
  /\ UNCHANGED <<chatVars, histVars, splitVars, cacheVars, typingVars>>

NextDownsell ==
  \/ store = <<>> /\ \E data \in RejectionImports : ImportConversationData(data)
  \/ store # <<>> /\ HalfHourPasses
  \/ \E chatState \in {[messageCount |-> 3, signals |-> {}]} :
        DetermineCurrentStage(chatState, {}, 0)

SpecDownsell == Init /\ [][NextDownsell]_vars

\* Store s has no persisted stage, a purchase outside every upsell window
\* at time t, and the rejection of an upsell to a plan with a downsell.
RejectionOnRecord(s, t) ==
  LET stageMem == GetLatestMemoryEntry(s, "funnel_stage", FALSE)
      product == GetLatestMemoryEntry(s, "purchased_product", FALSE)
      purchase == GetLatestMemoryEntry(s, "last_interaction", FALSE)
      rejection == GetLatestMemoryEntry(s, "rejected_upsell", FALSE)
  IN  /\ ~HasValue(stageMem)
      /\ HasValue(product) /\ HasValue(purchase)
      /\ "purchase_date" \in DOMAIN purchase.value
      /\ CheckUpsellOpportunity(StringOf(product.value),
                                CalculateDaysBetween(purchase.value.purchase_date, t)) = null
      /\ HasValue(rejection)
      /\ rejection.value.target_plan_id \in DOMAIN DOWNSELL_ALTERNATIVES

\* The downsell mapped to the rejected plan is stored under active_downsell.
DownsellActive(s, rejected) ==
  \E i \in 1..Len(s) :
     /\ s[i].key = <<"active_downsell">>
     /\ TryParseJson(s[i].value) = DOWNSELL_ALTERNATIVES[rejected]

\* C32: for a conversation with no persisted stage, a purchase and no
\* matching upsell window, a recorded rejection and a downsell mapped to
\* the rejected plan: determineCurrentStage stores the downsell as active
\* and returns downsell when less than 24 hours have gone by since the
\* rejection (also 23h30m), and does not return downsell when 24 hours or
\* more have gone by.
C32_DownsellWithinDay ==
  [][(calls' = calls + 1 /\ lastCall'.op = "determineCurrentStage"
        /\ RejectionOnRecord(store, now)) =>
       LET rejection == GetLatestMemoryEntry(store, "rejected_upsell", FALSE).value
           elapsed == now - rejection.rejection_time
       IN  /\ elapsed < 24 * Hour =>
                /\ lastCall'.result = "downsell"
                /\ DownsellActive(store', rejection.target_plan_id)
           /\ elapsed >= 24 * Hour => lastCall'.result # "downsell"]_vars

(***************************************************************************)
(* Where _splitTextChunks cuts.                                            *)
(***************************************************************************)

\* A sentence end, a line break or a space is at index i of the text.
BoundaryAt(text, i) ==
  \/ text[i + 1] \in {" ", "\n"}
  \/ /\ text[i + 1] \in {".", "?", "!"}
     /\ i + 2 <= Len(text)
     /\ text[i + 2] = " "

\* The boundaries in the tail half of the window that starts at start.
TailBoundaries(text, max, start) ==
  {i \in 0..(Len(text) - 1) :
     /\ 2 * i >= 2 * start + max
     /\ i <= start + max
     /\ BoundaryAt(text, i)}

\* The spaces in the first half of the window.
HeadSpaces(text, max, start) ==
  {i \in start..(Len(text) - 1) : 2 * i < 2 * start + max /\ text[i + 1] = " "}

\* The text was cut by length alone.
CutByLength == called /\ ~splitInParagraphs /\ Len(content) > maxLength

\* C33 as stated: a cut is made at a sentence end, line break or space only
\* if that boundary lies in the tail half [start + max/2, start + max] of
\* the window; when no boundary lies in the tail half the chunk is cut hard
\* at the maximum length.
C33_Original ==
  CutByLength =>
    LET cuts == CutsFrom(content, maxLength, 0)
    IN  \A k \in 1..Len(cuts) :
          LET tail == TailBoundaries(content, maxLength, cuts[k].start)
          IN  /\ chunks[k] = Chunk(content, cuts[k].start, cuts[k].sentenceBoundary)
              /\ IF tail # {} THEN cuts[k].sentenceBoundary \in tail
                 ELSE cuts[k].sentenceBoundary = cuts[k].start + maxLength - 1

\* C33 (amended): every chunk but the last is the text of its window up to
\* the cut; the cut is at a boundary of the tail half of the window when
\* there is one; when there is none it is at the last space of the first
\* half of the window when there is one, and only else hard at the maximum
\* length.
C33_CutAtBoundaryOrLastSpace ==
  CutByLength =>
    LET cuts == CutsFrom(content, maxLength, 0)
    IN  \A k \in 1..Len(cuts) :
          LET tail == TailBoundaries(content, maxLength, cuts[k].start)
              spaces == HeadSpaces(content, maxLength, cuts[k].start)
          IN  /\ chunks[k] = Chunk(content, cuts[k].start, cuts[k].sentenceBoundary)
              /\ IF tail # {} THEN cuts[k].sentenceBoundary \in tail
                 ELSE IF spaces # {} THEN cuts[k].sentenceBoundary = Max(spaces)
                 ELSE cuts[k].sentenceBoundary = cuts[k].start + maxLength - 1

\* A window without a boundary in its tail half was cut at a space of its
\* first half, which gave a chunk shorter than half the maximum; a later
\* window was cut hard.
C33_Witness ==
  /\ CutByLength
  /\ maxLength = 4
  /\ Len(chunks) = 3
  /\ Len(chunks[1]) = 1
  /\ LET cuts == CutsFrom(content, maxLength, 0)
     IN  /\ Len(cuts) = 2
         /\ TailBoundaries(content, maxLength, 0) = {}
         /\ cuts[1].sentenceBoundary = 1
         /\ TailBoundaries(content, maxLength, cuts[2].start) = {}
         /\ cuts[2].sentenceBoundary = cuts[2].start + maxLength - 1

(***************************************************************************)
(* The batcher and the run when the timers fire and the awaits of the run  *)
(* complete: a debounce timer that is armed fires when its delay has       *)
(* elapsed, time goes on, and a suspended run is resumed.                  *)
(***************************************************************************)
SpecBatcherFair ==
  /\ Init
  /\ [][NextBatcherLive]_vars
  /\ WF_vars(Tick)
  /\ WF_vars(ProcessMessageGroup)
  /\ WF_vars(ShortRunStep)

\* The fragments accepted so far.
Accepted == 1..Len(gapOf)

LookupNames ==
  {"active_upsell", "active_downsell", "purchased_product",
   "last_interaction", "rejected_upsell"}

\* The entries of store t that a call made on store s wrote.
WrittenBy(s, t) == {j \in 1..Len(t) : t[j] \notin Range(s)}

\* C35 (as claimed): what determineStage, updateStage or recordPurchase
\* stored under one of the names active_upsell, active_downsell,
\* purchased_product, last_interaction or rejected_upsell is the value the
\* later lookup of that name with getLatestMemoryEntry returns: writes and
\* reads address the same store entry.
C35_WritesAreRead ==
  [][(/\ calls' = calls + 1
      /\ lastCall'.op \in {"determineCurrentStage", "updateFunnelStage",
                           "recordPurchase"})
     => \A j \in WrittenBy(store, store') :
          (Len(store'[j].key) = 1 /\ store'[j].key[1] \in LookupNames)
          => GetLatestMemoryEntry(store', store'[j].key[1], FALSE)
               = [found |-> TRUE, value |-> TryParseJson(store'[j].value)]]_vars


(***************************************************************************)
(* The journey from a purchase recorded by recordPurchase to the next      *)
(* turns: the purchase, the days that pass and the stage resolution of a   *)
(* turn, on a conversation that starts with no memory entry.               *)
(***************************************************************************)

\* Ages of a purchase, in days, at which a turn is processed: one inside
\* the window of each configured opportunity.
JourneyAges == {3, 7, 30}

NextJourney ==
  \/ \E productId \in ProductIds, value \in PurchaseValues, failAt \in 0..MaxWrites :
        RecordPurchase(productId, value, {}, failAt)
  \/ \E d \in JourneyAges : DaysPass(d)
  \/ \E chatState \in ChatStates, failAt \in 0..1 :
        DetermineCurrentStage(chatState, {}, failAt)

SpecJourney == Init /\ [][NextJourney]_vars

\* The opportunity configured for the purchase that recordPurchase recorded
\* in store s, at instant t.
OpportunityOfPurchase(s, t) ==
  CheckUpsellOpportunity(StringOf(RecordedProduct(s)),
                         CalculateDaysBetween(RecordedPurchaseDate(s), t))

\* C36 (as claimed): for a conversation whose purchase was recorded by
\* recordPurchase, a turn whose days since the purchase lie inside the
\* window of an opportunity configured for the purchased plan is resolved
\* to stage upsell by determineCurrentStage, and that opportunity is stored
\* as the active upsell.
C36_UpsellReachableAfterPurchase ==
  [][(/\ calls' = calls + 1
      /\ lastCall'.op = "determineCurrentStage"
      /\ lastCall'.failedReads = {}
      /\ ~lastCall'.writeFailed
      /\ GetMemoryEntry(store, <<"purchased_product">>, "purchase_history").found
      /\ GetMemoryEntry(store, <<"last_interaction">>, "customer_journey").found
      /\ OpportunityOfPurchase(store, now) # null)
     => /\ lastCall'.result = "upsell"
        /\ GetMemoryEntry(store', <<"active_upsell">>, "sales_opportunity")
             = [found |-> TRUE, value |-> OpportunityOfPurchase(store, now)]]_vars


(***************************************************************************)
(* The history of a conversation over the turns of a run                   *)
(* (aiHandler.js 119-285): `content` is chatState.messages, which          *)
(* _getChatState loaded at the start of the run and each turn hands on.    *)
(***************************************************************************)

\* MAX_CONVERSATION_HISTORY (aiHandler.js 23)
MAX_CONVERSATION_HISTORY == 15

\* MAX_HISTORY_TOKENS (aiHandler.js 29)
MAX_HISTORY_TOKENS == 4000

\* Turns of one run.
MaxTurns == 2

\* _simpleTokenCount (aiHandler.js 767-773)
CountTokens(text) == IF text = <<>> THEN 0 ELSE Ceil(Len(text), 4)

\* processUserMessage, aiHandler.js 133-151: the user message is pushed
\* unless a user message with the same content is in the history.
UpdatedMessages(messages, userMessage) ==
  LET messageExists ==
        \E i \in 1..Len(messages) :
           messages[i].role = "user" /\ messages[i].content = userMessage
  IN  IF messageExists THEN messages
      ELSE Append(messages, [role |-> "user", content |-> userMessage])

\* The loop of _prepareMessagesForAI (aiHandler.js 299-314) from message i
\* down: system messages are skipped, messages are taken while they fit.
RECURSIVE HistoryToInclude(_, _, _)
HistoryToInclude(recentMessages, i, totalTokens) ==
  IF i = 0 THEN <<>>
  ELSE IF recentMessages[i].role = "system"
  THEN HistoryToInclude(recentMessages, i - 1, totalTokens)
  ELSE IF totalTokens + CountTokens(recentMessages[i].content) <= MAX_HISTORY_TOKENS
  THEN Append(HistoryToInclude(recentMessages, i - 1,
                               totalTokens + CountTokens(recentMessages[i].content)),
              recentMessages[i])
  ELSE <<>>

\* _prepareMessagesForAI (aiHandler.js 288-328) for a system prompt of
\* promptTokens tokens: the messages after the system message.
PrepareMessagesForAI(promptTokens, conversationHistory) ==
  HistoryToInclude(conversationHistory, Len(conversationHistory), promptTokens)

\* The truncation of the history (aiHandler.js 246-260)
TruncateHistory(messages) ==
  IF Len(messages) <= MAX_CONVERSATION_HISTORY * 2 THEN messages
  ELSE LET recentMessages ==
             SubSeq(messages, Len(messages) - MAX_CONVERSATION_HISTORY * 2 + 1,
                    Len(messages))
           systems == {i \in 1..Len(messages) : messages[i].role = "system"}
       IN  IF systems = {} THEN recentMessages
           ELSE <<messages[Min(systems)]>> \o recentMessages

SystemNote == [role |-> "system", content |-> <<"n", "o", "t", "a">>]

\* Histories _getChatState hands to the first turn of a run: none, and
\* stored ones of 2, 3 and 9 messages.
Histories ==
  {<<>>, <<UserPlain, AssistantPlain>>,
   <<SystemNote, UserClosing, AssistantClosing>>, Filler(9)}

\* Texts of the turns.
HistoryTexts == {UserPlain.content, UserClosing.content, UserPricing.content}

\* Token counts of the system prompt: far below the limit, and leaving
\* room for 6 tokens and for 1 token.
PromptTokens == {1000, MAX_HISTORY_TOKENS - 6, MAX_HISTORY_TOKENS - 1}

InitHistory ==
  /\ ChatInit /\ HistInit /\ CacheIdle
  /\ content \in Histories
  /\ maxLength = 0 /\ splitInParagraphs = FALSE /\ chunks = <<>> /\ called = FALSE
  /\ store \in {<<>>, PersistedClosing}
  /\ now = 0
  /\ calls = 0
  /\ lastCall = NoCall

\* One turn of processUserMessage in which no call fails (aiHandler.js
\* 133-262): the history is updated, the stage resolved, the messages for
\* the model prepared, and the reply pushed to the history.
ProcessUserMessageTurn(userMessage, promptTokens, reply) ==
  /\ calls < MaxTurns
  /\ calls' = calls + 1
  /\ called' = TRUE
  /\ \E updated \in {UpdatedMessages(content, userMessage)} :
       \E outcome \in {DetermineOutcome(store, ChatStateOf(updated), {})} :
          /\ store' = SaveAll(store, outcome.writes, Len(outcome.writes))
          /\ content' = TruncateHistory(Append(updated, reply))
          /\ lastCall' = [op |-> "processUserMessage", arg |-> userMessage,
                          result |-> outcome.returned,
                          messages |-> PrepareMessagesForAI(promptTokens, updated),
                          promptTokens |-> promptTokens,
                          before |-> content, stored |-> store,
                          failedReads |-> {}]
  /\ UNCHANGED <<now, maxLength, splitInParagraphs, chunks>>
  /\ UNCHANGED <<chatVars, histVars, cacheVars, typingVars>>

NextHistory ==
  \E userMessage \in HistoryTexts, promptTokens \in PromptTokens,
     reply \in {AssistantPlain, AssistantClosing} :
     ProcessUserMessageTurn(userMessage, promptTokens, reply)

SpecHistory == InitHistory /\ [][NextHistory]_vars

\* C37 (as claimed): the first turn of a new conversation (no stored
\* history, no persisted stage, no purchase) is processed in stage
\* greeting.
C37_FirstTurnInGreeting ==
  (/\ lastCall.op = "processUserMessage"
   /\ lastCall.before = <<>>
   /\ lastCall.stored = <<>>)
  => lastCall.result = "greeting"

\* C38 (as claimed): in every turn the text of the turn is the content of
\* the most recent user message of the history sent to the model, also
\* when the same text occurs as an earlier user message.
C38_TurnTextIsLatestUserMessage ==
  lastCall.op = "processUserMessage" =>
    LET sent == lastCall.messages
        ofUser == {i \in 1..Len(sent) : sent[i].role = "user"}
    IN  /\ ofUser # {}
        /\ sent[Max(ofUser)].content = lastCall.arg


(***************************************************************************)
(* The typing indicator (chatHandler.js 1033-1092) at the grain of its     *)
(* calls: each await of a text turn and of the queue sender is a step.     *)
(* procs holds the runs of the turns, senders the _processMessageQueue     *)
(* chains; a sender at "typing" has shifted its chunk and awaits           *)
(* getChatById.                                                            *)
(***************************************************************************)

\* Text turns of one behaviour.
TypingTurns == 2

\* A turn starts: _processTextMessage is called (chatHandler.js 304-305).
StartTextTurn ==
  /\ ActiveRuns = {}
  /\ turns < TypingTurns
  /\ turns' = turns + 1
  /\ procs' = Append(procs, [pc |-> "turn", pendingMessages |-> <<>>, messages |-> <<>>])
  /\ processingChats' = Len(procs) + 1
  /\ UNCHANGED <<incomingMessages, timeout, messageQueues, hasQueue, senders,
                 lastSent, reordered, typingIndicators>>
  /\ UNCHANGED <<sinceLast, gapOf, frag, merged, flushes, failed, actions, batches,
                 pendingAtFailure>>
  /\ UNCHANGED <<splitVars, storeVars, cacheVars>>

\* _sendTypingIndicator up to its first await (chatHandler.js 1034-1040),
\* called by the run at pc from: it returns when the flag is set, and
\* otherwise awaits getChatById and sendStateTyping.
RunChecksTyping(r, from, awaiting, next) ==
  /\ procs[r].pc = from
  /\ procs' = [procs EXCEPT ![r].pc = IF typingIndicators THEN next ELSE awaiting]
  /\ UNCHANGED <<incomingMessages, timeout, processingChats, messageQueues, hasQueue,
                 senders, lastSent, reordered, typingIndicators>>
  /\ UNCHANGED histVars
  /\ UNCHANGED <<splitVars, storeVars, cacheVars>>

\* _processTextMessage, line 308
TurnSendsTyping(r) == RunChecksTyping(r, "turn", "turnTyping", "ai")

\* The awaits of _sendTypingIndicator end (chatHandler.js 1040-1050): the
\* flag is set, or an error is caught and logged.
TurnTypingDone(r, ok) ==
  /\ procs[r].pc = "turnTyping"
  /\ procs' = [procs EXCEPT ![r].pc = "ai"]
  /\ typingIndicators' = IF ok THEN TRUE ELSE typingIndicators
  /\ UNCHANGED <<incomingMessages, timeout, processingChats, messageQueues, hasQueue,
                 senders, lastSent, reordered>>
  /\ UNCHANGED histVars
  /\ UNCHANGED <<splitVars, storeVars, cacheVars>>

\* processUserMessage and the calls after it return or throw
\* (chatHandler.js 310-343): either way _sendResponse is called with a
\* text, and awaits getChatById (778-786).
TurnAnswered(r) ==
  /\ procs[r].pc = "ai"
  /\ procs' = [procs EXCEPT ![r].pc = "response"]
  /\ UNCHANGED <<incomingMessages, timeout, processingChats, messageQueues, hasQueue,
                 senders, lastSent, reordered, typingIndicators>>
  /\ UNCHANGED histVars
  /\ UNCHANGED <<splitVars, storeVars, cacheVars>>

\* getChatById of _sendResponse throws (chatHandler.js 796-798): nothing
\* is queued, and the finally of _processTextMessage follows.
ResponseFails(r) ==
  /\ procs[r].pc = "response"
  /\ procs' = [procs EXCEPT ![r].pc = "clear"]
  /\ UNCHANGED <<incomingMessages, timeout, processingChats, messageQueues, hasQueue,
                 senders, lastSent, reordered, typingIndicators>>
  /\ UNCHANGED histVars
  /\ UNCHANGED <<splitVars, storeVars, cacheVars>>

\* getChatById of _sendResponse returns (chatHandler.js 786-792): the text
\* is split and _sendTypingIndicator is called.
ResponseSendsTyping(r) == RunChecksTyping(r, "response", "responseTyping", "queue")

ResponseTypingDone(r, ok) ==
  /\ procs[r].pc = "responseTyping"
  /\ procs' = [procs EXCEPT ![r].pc = "queue"]
  /\ typingIndicators' = IF ok THEN TRUE ELSE typingIndicators
  /\ UNCHANGED <<incomingMessages, timeout, processingChats, messageQueues, hasQueue,
                 senders, lastSent, reordered>>
  /\ UNCHANGED histVars
  /\ UNCHANGED <<splitVars, storeVars, cacheVars>>

\* _queueMessages with the n chunks of the text (chatHandler.js 795), then
\* _sendResponse returns to _processTextMessage.
ResponseQueued(r, n) ==
  /\ procs[r].pc = "queue"
  /\ procs' = [procs EXCEPT ![r].pc = "clear"]
  /\ QueueMessages(n)
  /\ UNCHANGED <<incomingMessages, timeout, processingChats, lastSent, reordered,
                 typingIndicators>>
  /\ UNCHANGED <<sinceLast, gapOf, frag, merged, flushes, turns, failed, actions,
                 pendingAtFailure>>
  /\ UNCHANGED <<splitVars, storeVars, cacheVars>>

\* The finally of _processTextMessage (chatHandler.js 345-348):
\* _clearTypingIndicator up to its first await (1075-1081).  With no flag
\* it returns, and the turn and its run end.
TurnClearsTyping(r) ==
  /\ procs[r].pc = "clear"
  /\ procs' = [procs EXCEPT ![r].pc = IF typingIndicators THEN "clearing" ELSE "done"]
  /\ processingChats' = IF typingIndicators THEN processingChats ELSE 0
  /\ UNCHANGED <<incomingMessages, timeout, messageQueues, hasQueue, senders,
                 lastSent, reordered, typingIndicators>>
  /\ UNCHANGED histVars
  /\ UNCHANGED <<splitVars, storeVars, cacheVars>>

\* The awaits of _clearTypingIndicator end (chatHandler.js 1081-1091): the
\* flag is deleted, or an error is caught and logged.
TurnClearDone(r, ok) ==
  /\ procs[r].pc = "clearing"
  /\ procs' = [procs EXCEPT ![r].pc = "done"]
  /\ processingChats' = 0
  /\ typingIndicators' = IF ok THEN FALSE ELSE typingIndicators
  /\ UNCHANGED <<incomingMessages, timeout, messageQueues, hasQueue, senders,
                 lastSent, reordered>>
  /\ UNCHANGED histVars
  /\ UNCHANGED <<splitVars, storeVars, cacheVars>>

\* getChatById of _processMessageQueue returns and _simulateTyping calls
\* _sendTypingIndicator (chatHandler.js 843-849, 1060-1062), which returns
\* when the flag is set.
SenderSendsTyping(s) ==
  /\ s \in senders
  /\ s.pc = "typing"
  /\ senders' = (senders \ {s})
                \cup {[s EXCEPT !.pc = IF typingIndicators THEN "delay" ELSE "typingOn"]}
  /\ UNCHANGED <<incomingMessages, timeout, processingChats, procs, messageQueues,
                 hasQueue, lastSent, reordered, typingIndicators>>
  /\ UNCHANGED histVars
  /\ UNCHANGED <<splitVars, storeVars, cacheVars>>

SenderTypingDone(s, ok) ==
  /\ s \in senders
  /\ s.pc = "typingOn"
  /\ senders' = (senders \ {s}) \cup {[s EXCEPT !.pc = "delay"]}
  /\ typingIndicators' = IF ok THEN TRUE ELSE typingIndicators
  /\ UNCHANGED <<incomingMessages, timeout, processingChats, procs, messageQueues,
                 hasQueue, lastSent, reordered>>
  /\ UNCHANGED histVars
  /\ UNCHANGED <<splitVars, storeVars, cacheVars>>

\* The typing delay ends and the chunk is sent (chatHandler.js 1064-1065,
\* 852-863); nothing clears the typing state.
SenderSent(s) ==
  /\ s \in senders
  /\ s.pc = "delay"
  /\ lastSent' = s.message
  /\ reordered' = (reordered \/ Before(s.message, lastSent))
  /\ senders' = (senders \ {s}) \cup {[s EXCEPT !.pc = "waiting"]}
  /\ UNCHANGED <<incomingMessages, timeout, processingChats, procs, messageQueues,
                 hasQueue, typingIndicators>>
  /\ UNCHANGED histVars
  /\ UNCHANGED <<splitVars, storeVars, cacheVars>>

NextTyping ==
  \/ StartTextTurn
  \/ \E r \in 1..Len(procs) :
        \/ TurnSendsTyping(r)
        \/ \E ok \in BOOLEAN : TurnTypingDone(r, ok)
        \/ TurnAnswered(r)
        \/ ResponseFails(r)
        \/ ResponseSendsTyping(r)
        \/ \E ok \in BOOLEAN : ResponseTypingDone(r, ok)
        \/ \E n \in 1..MaxChunks : ResponseQueued(r, n)
        \/ TurnClearsTyping(r)
        \/ \E ok \in BOOLEAN : TurnClearDone(r, ok)
  \/ \E s \in senders :
        \/ SenderSendsTyping(s)
        \/ \E ok \in BOOLEAN : SenderTypingDone(s, ok)
        \/ SenderSent(s)
        \/ SenderFail(s)
        \/ SenderNext(s)

SpecTyping == Init /\ [][NextTyping]_vars

\* C39 (as claimed): whenever the conversation has no active processing
\* run, an empty outgoing queue and no active queue sender, its
\* typing-indicator flag is cleared.
C39_TypingClearedWhenIdle ==
  (ActiveRuns = {} /\ messageQueues = <<>> /\ senders = {}) => ~typingIndicators


\* C40 (as claimed): for every non-blank reply text and every maximum
\* length of at least 1, _splitMessage terminates (each iteration of the
\* loop of _splitTextChunks moves its start forward) and returns no chunk
\* that is empty or holds white space only.
C40_NoEmptyChunk ==
  (called /\ Trim(content) # <<>>)
  => /\ \A k \in 1..Len(chunks) : Trim(chunks[k]) # <<>>
     /\ LET cuts == CutsFrom(content, maxLength, 0)
        IN  \A k \in 1..Len(cuts) : cuts[k].sentenceBoundary >= cuts[k].start

=============================================================================
